---------------------------- MODULE Spec2Model ----------------------------
(***************************************************************************)
(* A model of the Daphne DAP aggregator core: the media-type codec         *)
(* (daphne/src/constants.rs), request authorization (daphne/src/auth.rs,   *)
(* daphne_worker/src/dap.rs) and the durable-object orchestration of the   *)
(* Leader and Helper roles (daphne_worker/src/dap.rs).                     *)
(***************************************************************************)
EXTENDS Integers, Sequences, FiniteSets, TLC

VARIABLES
    leaderTokens,     \* KV: task id -> Option<BearerToken> (leader bearer tokens)
    collectorTokens,  \* KV: task id -> Option<BearerToken> (collector bearer tokens)
    taskprov,         \* DaphneWorkerConfig.taskprov: Option<TaskprovConfig>
    allowTaskprov,    \* DapGlobalConfig.allow_taskprov
    authReq,          \* the last DapRequest given to unauthorized_reason
    authRes,          \* its outcome and the token stores it consulted
    aggStore,         \* AggregateStore instances of the task: bucket -> (share, collected)
    reportsProcessed, \* ReportsProcessed instances of the task: name -> report ids
    colQueue,         \* LeaderCollectionJobQueue: collect id -> job
    now,              \* the clock read by get_current_time
    accepted,         \* per report id, how many check_early_reject calls passed it
    taskConfigs,      \* KV: task id -> Option<DapTaskConfig> (task configurations)
    resolving,        \* per request context, its get_task_config_considering_taskprov call
    mergeRequests,    \* AggregateStore merge requests sent and not yet served
    mergeSent,        \* per bucket, the merge of the deltas sent to it, in sending order
    helperState,      \* HelperStateStore instances: name -> Option<hex string>
    batchQueue,       \* LeaderBatchQueue of the fixed-size task: report count per batch
    batchRemoved,     \* LeaderBatchQueue: the batch ids removed from the queue
    reportsPending,   \* ReportsPending of the fixed-size task: reports not yet drained
    pendingStore,     \* ReportsPending instances of the task: name -> reports uploaded
    ret               \* the call in progress: its operation, arguments and result

authVars == <<leaderTokens, collectorTokens, taskprov, allowTaskprov, authReq, authRes>>

durableVars == <<aggStore, reportsProcessed, colQueue, now, accepted, ret>>

taskVars == <<taskConfigs, resolving>>

jobVars == <<mergeRequests, mergeSent, helperState, batchQueue, batchRemoved, reportsPending, pendingStore>>

vars == <<leaderTokens, collectorTokens, taskprov, allowTaskprov, authReq, authRes,
          aggStore, reportsProcessed, colQueue, now, accepted, ret, taskConfigs, resolving,
          mergeRequests, mergeSent, helperState, batchQueue, batchRemoved, reportsPending, pendingStore>>

(***************************************************************************)
(* Option<T>                                                               *)
(***************************************************************************)
None == [tag |-> "None"]

Some(x) == [tag |-> "Some", val |-> x]

(***************************************************************************)
(* Media types: daphne/src/constants.rs                                    *)
(***************************************************************************)
DRAFT02_MEDIA_TYPE_AGG_CONT_REQ == "application/dap-aggregate-continue-req"

DRAFT02_MEDIA_TYPE_AGG_CONT_RESP == "application/dap-aggregate-continue-resp"

DRAFT02_MEDIA_TYPE_AGG_INIT_REQ == "application/dap-aggregate-initialize-req"

DRAFT02_MEDIA_TYPE_AGG_INIT_RESP == "application/dap-aggregate-initialize-resp"

DRAFT02_MEDIA_TYPE_AGG_SHARE_RESP == "application/dap-aggregate-share-resp"

DRAFT02_MEDIA_TYPE_COLLECT_RESP == "application/dap-collect-resp"

DRAFT02_MEDIA_TYPE_HPKE_CONFIG == "application/dap-hpke-config"

MEDIA_TYPE_AGG_JOB_CONT_REQ == "application/dap-aggregation-job-continue-req"

MEDIA_TYPE_AGG_JOB_INIT_REQ == "application/dap-aggregation-job-init-req"

MEDIA_TYPE_AGG_JOB_RESP == "application/dap-aggregation-job-resp"

MEDIA_TYPE_AGG_SHARE_REQ == "application/dap-aggregate-share-req"

MEDIA_TYPE_AGG_SHARE == "application/dap-aggregate-share"

MEDIA_TYPE_COLLECTION == "application/dap-collection"

MEDIA_TYPE_COLLECT_REQ == "application/dap-collect-req"

MEDIA_TYPE_HPKE_CONFIG_LIST == "application/dap-hpke-config-list"

MEDIA_TYPE_REPORT == "application/dap-report"

\* DapVersion, without the Unknown variant (as_str_for_version is unreachable for it).
DapVersion == {"Draft02", "Draft04"}

\* The unit variants of DapMediaType.
KnownKinds ==
    {"AggregationJobInitReq", "AggregationJobResp", "AggregationJobContinueReq",
     "Draft02AggregateContinueResp", "AggregateShareReq", "AggregateShare",
     "CollectReq", "Collection", "HpkeConfigList", "Report"}

\* A DapMediaType value: a unit variant, Invalid(raw) or Missing.
Kind(k) == [kind |-> k, raw |-> ""]

Invalid(s) == [kind |-> "Invalid", raw |-> s]

Missing == [kind |-> "Missing", raw |-> ""]

\* A sender table that files Report under the Leader's media types.
sender_ReportFromLeader(media) ==
    CASE media.kind \in {"AggregationJobInitReq", "AggregationJobContinueReq",
                         "AggregateShareReq", "Collection", "HpkeConfigList", "Report"}
            -> Some("Leader")
      [] media.kind \in {"AggregationJobResp", "Draft02AggregateContinueResp",
                         "AggregateShare"}
            -> Some("Helper")
      [] media.kind = "CollectReq" -> Some("Collector")
      [] media.kind \in {"Invalid", "Missing"} -> None

\* A sender table that files Collection under the Helper's media types.
sender_CollectionFromHelper(media) ==
    CASE media.kind \in {"AggregationJobInitReq", "AggregationJobContinueReq",
                         "AggregateShareReq", "HpkeConfigList"}
            -> Some("Leader")
      [] media.kind \in {"AggregationJobResp", "Draft02AggregateContinueResp",
                         "AggregateShare", "Collection"}
            -> Some("Helper")
      [] media.kind = "Report" -> Some("Client")
      [] media.kind = "CollectReq" -> Some("Collector")
      [] media.kind \in {"Invalid", "Missing"} -> None

\* DapMediaType::sender: Option<DapSender>
sender(media) ==
    CASE media.kind \in {"AggregationJobInitReq", "AggregationJobContinueReq",
                         "AggregateShareReq", "Collection", "HpkeConfigList"}
            -> Some("Leader")
      [] media.kind \in {"AggregationJobResp", "Draft02AggregateContinueResp",
                         "AggregateShare"}
            -> Some("Helper")
      [] media.kind = "Report" -> Some("Client")
      [] media.kind = "CollectReq" -> Some("Collector")
      [] media.kind \in {"Invalid", "Missing"} -> None

\* The match arms of from_str_for_version, in source order; the first that matches wins.
from_str_arms(version, ct) ==
    <<  <<(version = "Draft02" /\ ct = DRAFT02_MEDIA_TYPE_AGG_CONT_REQ)
            \/ (version = "Draft04" /\ ct = MEDIA_TYPE_AGG_JOB_CONT_REQ),
          Kind("AggregationJobContinueReq")>>,
        <<version = "Draft02" /\ ct = DRAFT02_MEDIA_TYPE_AGG_CONT_RESP,
          Kind("Draft02AggregateContinueResp")>>,
        <<(version = "Draft02" /\ ct = DRAFT02_MEDIA_TYPE_AGG_INIT_REQ)
            \/ (version = "Draft04" /\ ct = MEDIA_TYPE_AGG_JOB_INIT_REQ),
          Kind("AggregationJobInitReq")>>,
        <<(version = "Draft02" /\ ct = DRAFT02_MEDIA_TYPE_AGG_INIT_RESP)
            \/ (version = "Draft04" /\ ct = MEDIA_TYPE_AGG_JOB_RESP),
          Kind("AggregationJobResp")>>,
        <<(version = "Draft02" /\ ct = DRAFT02_MEDIA_TYPE_AGG_SHARE_RESP)
            \/ (version = "Draft04" /\ ct = MEDIA_TYPE_AGG_SHARE),
          Kind("AggregateShare")>>,
        <<(version = "Draft02" /\ ct = DRAFT02_MEDIA_TYPE_COLLECT_RESP)
            \/ (version = "Draft04" /\ ct = MEDIA_TYPE_COLLECTION),
          Kind("Collection")>>,
        <<(version = "Draft02" /\ ct = DRAFT02_MEDIA_TYPE_HPKE_CONFIG)
            \/ (version = "Draft04" /\ ct = MEDIA_TYPE_HPKE_CONFIG_LIST),
          Kind("HpkeConfigList")>>,
        <<(version = "Draft02" /\ ct = MEDIA_TYPE_AGG_SHARE_REQ)
            \/ (version = "Draft04" /\ ct = MEDIA_TYPE_AGG_SHARE_REQ),
          Kind("AggregateShareReq")>>,
        <<(version = "Draft02" /\ ct = MEDIA_TYPE_COLLECT_REQ)
            \/ (version = "Draft04" /\ ct = MEDIA_TYPE_COLLECT_REQ),
          Kind("CollectReq")>>,
        <<(version = "Draft02" /\ ct = MEDIA_TYPE_REPORT)
            \/ (version = "Draft04" /\ ct = MEDIA_TYPE_REPORT),
          Kind("Report")>>,
        <<TRUE, Invalid(ct)>>  >>

\* A buggy parse that lets the latest draft's strings through under any version.
from_str_for_version_AnyVersion(version, content_type) ==
    IF content_type = None THEN Missing
    ELSE LET arms == from_str_arms("Draft04", content_type.val)
             first == CHOOSE i \in 1..Len(arms) :
                         arms[i][1] /\ \A j \in 1..(i - 1) : ~arms[j][1]
         IN  arms[first][2]

\* A parse that reports an absent header as an invalid, empty one.
from_str_for_version_AbsentAsInvalid(version, content_type) ==
    IF content_type = None THEN Invalid("")
    ELSE LET arms == from_str_arms(version, content_type.val)
             first == CHOOSE i \in 1..Len(arms) :
                         arms[i][1] /\ \A j \in 1..(i - 1) : ~arms[j][1]
         IN  arms[first][2]

\* DapMediaType::from_str_for_version(version, content_type: Option<&str>)
from_str_for_version(version, content_type) ==
    IF content_type = None THEN Missing
    ELSE LET arms == from_str_arms(version, content_type.val)
             first == CHOOSE i \in 1..Len(arms) :
                         arms[i][1] /\ \A j \in 1..(i - 1) : ~arms[j][1]
         IN  arms[first][2]

\* A render that writes the latest draft's strings under every version.
as_str_for_version_LatestOnly(media, version) ==
    LET latest == [AggregationJobInitReq |-> MEDIA_TYPE_AGG_JOB_INIT_REQ,
                   AggregationJobResp |-> MEDIA_TYPE_AGG_JOB_RESP,
                   AggregationJobContinueReq |-> MEDIA_TYPE_AGG_JOB_CONT_REQ,
                   AggregateShareReq |-> MEDIA_TYPE_AGG_SHARE_REQ,
                   AggregateShare |-> MEDIA_TYPE_AGG_SHARE,
                   CollectReq |-> MEDIA_TYPE_COLLECT_REQ,
                   Collection |-> MEDIA_TYPE_COLLECTION,
                   HpkeConfigList |-> MEDIA_TYPE_HPKE_CONFIG_LIST,
                   Report |-> MEDIA_TYPE_REPORT]
    IN  CASE media.kind = "Invalid" -> Some(media.raw)
          [] media.kind \in {"Missing", "Draft02AggregateContinueResp"} -> None
          [] OTHER -> Some(latest[media.kind])

\* A render that keeps the draft02 continue-response string under every version.
as_str_for_version_ContRespEverywhere(media, version) ==
    LET draft02 == [AggregationJobInitReq |-> DRAFT02_MEDIA_TYPE_AGG_INIT_REQ,
                    AggregationJobResp |-> DRAFT02_MEDIA_TYPE_AGG_INIT_RESP,
                    AggregationJobContinueReq |-> DRAFT02_MEDIA_TYPE_AGG_CONT_REQ,
                    Draft02AggregateContinueResp |-> DRAFT02_MEDIA_TYPE_AGG_CONT_RESP,
                    AggregateShareReq |-> MEDIA_TYPE_AGG_SHARE_REQ,
                    AggregateShare |-> DRAFT02_MEDIA_TYPE_AGG_SHARE_RESP,
                    CollectReq |-> MEDIA_TYPE_COLLECT_REQ,
                    Collection |-> DRAFT02_MEDIA_TYPE_COLLECT_RESP,
                    HpkeConfigList |-> DRAFT02_MEDIA_TYPE_HPKE_CONFIG,
                    Report |-> MEDIA_TYPE_REPORT]
        draft04 == [AggregationJobInitReq |-> MEDIA_TYPE_AGG_JOB_INIT_REQ,
                    AggregationJobResp |-> MEDIA_TYPE_AGG_JOB_RESP,
                    AggregationJobContinueReq |-> MEDIA_TYPE_AGG_JOB_CONT_REQ,
                    Draft02AggregateContinueResp |-> DRAFT02_MEDIA_TYPE_AGG_CONT_RESP,
                    AggregateShareReq |-> MEDIA_TYPE_AGG_SHARE_REQ,
                    AggregateShare |-> MEDIA_TYPE_AGG_SHARE,
                    CollectReq |-> MEDIA_TYPE_COLLECT_REQ,
                    Collection |-> MEDIA_TYPE_COLLECTION,
                    HpkeConfigList |-> MEDIA_TYPE_HPKE_CONFIG_LIST,
                    Report |-> MEDIA_TYPE_REPORT]
    IN  CASE media.kind = "Invalid" -> Some(media.raw)
          [] media.kind = "Missing" -> None
          [] OTHER -> Some(IF version = "Draft02" THEN draft02[media.kind]
                           ELSE draft04[media.kind])

\* DapMediaType::as_str_for_version(&self, version): Option<&str>
as_str_for_version(media, version) ==
    CASE media.kind = "AggregationJobInitReq" ->
            IF version = "Draft02" THEN Some(DRAFT02_MEDIA_TYPE_AGG_INIT_REQ)
            ELSE Some(MEDIA_TYPE_AGG_JOB_INIT_REQ)
      [] media.kind = "AggregationJobResp" ->
            IF version = "Draft02" THEN Some(DRAFT02_MEDIA_TYPE_AGG_INIT_RESP)
            ELSE Some(MEDIA_TYPE_AGG_JOB_RESP)
      [] media.kind = "AggregationJobContinueReq" ->
            IF version = "Draft02" THEN Some(DRAFT02_MEDIA_TYPE_AGG_CONT_REQ)
            ELSE Some(MEDIA_TYPE_AGG_JOB_CONT_REQ)
      [] media.kind = "Draft02AggregateContinueResp" ->
            IF version = "Draft02" THEN Some(DRAFT02_MEDIA_TYPE_AGG_CONT_RESP)
            ELSE None
      [] media.kind = "AggregateShareReq" -> Some(MEDIA_TYPE_AGG_SHARE_REQ)
      [] media.kind = "AggregateShare" ->
            IF version = "Draft02" THEN Some(DRAFT02_MEDIA_TYPE_AGG_SHARE_RESP)
            ELSE Some(MEDIA_TYPE_AGG_SHARE)
      [] media.kind = "CollectReq" -> Some(MEDIA_TYPE_COLLECT_REQ)
      [] media.kind = "Collection" ->
            IF version = "Draft02" THEN Some(DRAFT02_MEDIA_TYPE_COLLECT_RESP)
            ELSE Some(MEDIA_TYPE_COLLECTION)
      [] media.kind = "HpkeConfigList" ->
            IF version = "Draft02" THEN Some(DRAFT02_MEDIA_TYPE_HPKE_CONFIG)
            ELSE Some(MEDIA_TYPE_HPKE_CONFIG_LIST)
      [] media.kind = "Report" -> Some(MEDIA_TYPE_REPORT)
      [] media.kind = "Invalid" -> Some(media.raw)
      [] media.kind = "Missing" -> None

\* The content-type strings a version defines: what as_str_for_version renders
\* for the unit variants.
StringTable(version) ==
    { as_str_for_version(Kind(k), version).val :
        k \in { kk \in KnownKinds : as_str_for_version(Kind(kk), version) # None } }

\* Content-type headers a request may carry: every string of either table, one
\* string of neither, or no header.
ContentTypes ==
    { Some(s) : s \in StringTable("Draft02") \cup StringTable("Draft04")
                        \cup {"application/json"} }
    \cup {None}

(***************************************************************************)
(* Request authorization: daphne/src/auth.rs, daphne_worker/src/dap.rs     *)
(***************************************************************************)
TaskIds == {"t1", "t2"}

\* Bearer tokens are byte strings.
TokenA == <<1, 2>>

TokenB == <<1, 3>>

TokenC == <<1>>

\* Tokens a task may be configured with in KV.
StoredTokens == {TokenA}

\* Tokens a request may present.
PresentedTokens == {TokenA, TokenB, TokenC}

\* DaphneWorkerAuthMethod
BearerTokenMethod(token) == [type |-> "BearerToken", token |-> token]

CfTlsClientAuthMethod(issuer, subjects) ==
    [type |-> "CfTlsClientAuth", valid_cert_issuer |-> issuer,
     valid_cert_subjects |-> subjects]

AuthMethods ==
    {BearerTokenMethod(TokenC), CfTlsClientAuthMethod("issuer1", {"subject1", "subject2"})}

\* DaphneWorkerAuth: the credential a request carries.
BearerTokenAuth(token) == [type |-> "BearerToken", token |-> token]

CfTlsClientAuth(issuer, subject) ==
    [type |-> "CfTlsClientAuth", cert_issuer |-> issuer, cert_subject |-> subject]

SenderAuths ==
    {None}
    \cup { Some(BearerTokenAuth(t)) : t \in PresentedTokens }
    \cup { Some(CfTlsClientAuth(i, s)) :
             <<i, s>> \in {<<"issuer1", "subject1">>, <<"issuer1", "subject3">>,
                           <<"issuer2", "subject1">>} }

\* TaskprovConfig: leader_auth, collector_auth: Option<..>.
TaskprovConfigs ==
    { [leader_auth |-> l, collector_auth |-> c] :
        l \in AuthMethods, c \in {None} \cup { Some(m) : m \in AuthMethods } }

\* Outcomes of an authorization check: Ok(None), Ok(Some(reason)), or a panic.
OkNone == [outcome |-> "Ok", reason |-> None]

Deny(reason) == [outcome |-> "Ok", reason |-> Some(reason)]

Panic(msg) == [outcome |-> "Panic", reason |-> Some(msg)]

\* messages::constant_time_eq: equal lengths, and the OR of the bytewise
\* differences is zero.
RECURSIVE ct_acc(_, _, _)
ct_acc(left, right, i) ==
    IF i > Len(left) THEN 0
    ELSE LET d == IF left[i] = right[i] THEN 0 ELSE 1
             r == ct_acc(left, right, i + 1)
         IN  IF d = 1 \/ r = 1 THEN 1 ELSE 0

constant_time_eq(left, right) ==
    IF Len(left) # Len(right) THEN FALSE ELSE ct_acc(left, right, 1) = 0

\* impl PartialEq for BearerToken
BearerTokenEq(a, b) == constant_time_eq(a, b)

\* AsRef<BearerToken> for DaphneWorkerAuthMethod: the method's token, if it is a
\* bearer token; a method of another type matches no token.
MethodAsBearerToken(method) ==
    IF method.type = "BearerToken" THEN Some(method.token) ELSE None

\* BearerTokenProvider::get_leader_bearer_token_for
get_leader_bearer_token_for(task_id) == leaderTokens[task_id]

\* BearerTokenProvider::get_collector_bearer_token_for
get_collector_bearer_token_for(task_id) == collectorTokens[task_id]

\* A taskprov leader check that ignores the allow_taskprov flag.
is_taskprov_leader_bearer_token_NoFlag(token) ==
    CASE taskprov # None ->
            LET t == MethodAsBearerToken(taskprov.val.leader_auth)
            IN  [panic |-> FALSE, val |-> t # None /\ BearerTokenEq(t.val, token)]
      [] taskprov = None -> [panic |-> FALSE, val |-> FALSE]

\* DaphneWorker::is_taskprov_leader_bearer_token
is_taskprov_leader_bearer_token(token) ==
    IF ~allowTaskprov THEN [panic |-> FALSE, val |-> FALSE]
    ELSE CASE taskprov # None ->
                LET t == MethodAsBearerToken(taskprov.val.leader_auth)
                IN  [panic |-> FALSE, val |-> t # None /\ BearerTokenEq(t.val, token)]
           [] taskprov = None -> [panic |-> FALSE, val |-> FALSE]

\* DaphneWorker::is_taskprov_collector_bearer_token; expect() panics when no
\* collector authorization method is set.
is_taskprov_collector_bearer_token(token) ==
    IF ~allowTaskprov THEN [panic |-> FALSE, val |-> FALSE]
    ELSE CASE taskprov # None ->
                IF taskprov.val.collector_auth = None
                THEN [panic |-> TRUE, val |-> FALSE]
                ELSE LET t == MethodAsBearerToken(taskprov.val.collector_auth.val)
                     IN  [panic |-> FALSE,
                          val |-> t # None /\ BearerTokenEq(t.val, token)]
           [] taskprov = None -> [panic |-> FALSE, val |-> FALSE]

\* The outcome of a check together with the token stores it read.
AuthOutcome(result, consulted) == [result |-> result, consulted |-> consulted]

\* BearerTokenProvider::bearer_token_authorized; reached with a bearer token in
\* req.sender_auth.
bearer_token_authorized(req) ==
    IF req.task_id = None
    THEN AuthOutcome(Deny("Cannot authorize request with missing task ID."), {})
    ELSE
    LET task_id == req.task_id.val
        got == req.sender_auth.val.token
    IN
    IF sender(req.media_type) = Some("Leader") /\ req.sender_auth # None
    THEN LET expected == get_leader_bearer_token_for(task_id)
         IN  IF expected # None
             THEN AuthOutcome(
                    IF BearerTokenEq(got, expected.val) THEN OkNone
                    ELSE Deny("The indicated beareer token is incorrect for the Leader."),
                    {"leader_bearer_token"})
             ELSE AuthOutcome(
                    IF is_taskprov_leader_bearer_token(got).val THEN OkNone
                    ELSE Deny("The indicated beaer token is incorrect for Taskprov Leader."),
                    {"leader_bearer_token", "taskprov_leader"})
    ELSE IF sender(req.media_type) = Some("Collector") /\ req.sender_auth # None
    THEN LET expected == get_collector_bearer_token_for(task_id)
         IN  IF expected # None
             THEN AuthOutcome(
                    IF BearerTokenEq(got, expected.val) THEN OkNone
                    ELSE Deny("The indicated bearer token is incorrect for the Collector."),
                    {"collector_bearer_token"})
             ELSE LET tp == is_taskprov_collector_bearer_token(got)
                  IN  AuthOutcome(
                        IF tp.panic THEN Panic("collector authorization method not set")
                        ELSE IF tp.val THEN OkNone
                        ELSE Deny("The indicated bearer token is incorrect for the Taskprov Collector."),
                        {"collector_bearer_token", "taskprov_collector"})
    ELSE AuthOutcome(
            Deny("Cannot resolve sender due to unexpected media type."), {})

\* A TLS client-auth arm that checks the issuer and forgets the subject.
cf_tls_client_auth_authorized_IssuerOnly(req) ==
    LET cert_issuer == req.sender_auth.val.cert_issuer
        snd == sender(req.media_type)
        Decide(method) ==
            IF cert_issuer # method.valid_cert_issuer
            THEN Deny("Request denied due to unexpected subject or issuer in TLS client certificate.")
            ELSE OkNone
    IN
    IF taskprov # None
    THEN CASE snd = Some("Leader") ->
                IF taskprov.val.leader_auth.type = "CfTlsClientAuth"
                THEN Decide(taskprov.val.leader_auth)
                ELSE Deny("Request from Leader denied due to unexpected authorization method (did not expect TLS client auth).")
           [] snd = Some("Collector") ->
                IF taskprov.val.collector_auth = None
                THEN Deny("Request from Collector denied: no authorization method configured.")
                ELSE IF taskprov.val.collector_auth.val.type = "CfTlsClientAuth"
                THEN Decide(taskprov.val.collector_auth.val)
                ELSE Deny("Request from Collector denied due to unexpected authorization method (did not expect TLS client auth).")
           [] snd \in {Some("Helper"), Some("Client")} ->
                Deny("Request denied from unexpected sender.")
           [] snd = None ->
                Deny("Request denied because the sender could not be determined.")
    ELSE Deny("Request denied: authorization method unavailable.")

\* The TLS client-auth arm of unauthorized_reason (dap.rs:285-347).
cf_tls_client_auth_authorized(req) ==
    LET cert_issuer == req.sender_auth.val.cert_issuer
        cert_subject == req.sender_auth.val.cert_subject
        snd == sender(req.media_type)
        Decide(method) ==
            IF cert_issuer # method.valid_cert_issuer
                \/ cert_subject \notin method.valid_cert_subjects
            THEN Deny("Request denied due to unexpected subject or issuer in TLS client certificate.")
            ELSE OkNone
    IN
    IF taskprov # None
    THEN CASE snd = Some("Leader") ->
                IF taskprov.val.leader_auth.type = "CfTlsClientAuth"
                THEN Decide(taskprov.val.leader_auth)
                ELSE Deny("Request from Leader denied due to unexpected authorization method (did not expect TLS client auth).")
           [] snd = Some("Collector") ->
                IF taskprov.val.collector_auth = None
                THEN Deny("Request from Collector denied: no authorization method configured.")
                ELSE IF taskprov.val.collector_auth.val.type = "CfTlsClientAuth"
                THEN Decide(taskprov.val.collector_auth.val)
                ELSE Deny("Request from Collector denied due to unexpected authorization method (did not expect TLS client auth).")
           [] snd \in {Some("Helper"), Some("Client")} ->
                Deny("Request denied from unexpected sender.")
           [] snd = None ->
                Deny("Request denied because the sender could not be determined.")
    ELSE Deny("Request denied: authorization method unavailable.")

\* DapAggregator::unauthorized_reason
unauthorized_reason(req) ==
    CASE req.sender_auth = None ->
            AuthOutcome(Deny("request denied: no authorization provided"), {})
      [] req.sender_auth # None /\ req.sender_auth.val.type = "BearerToken" ->
            bearer_token_authorized(req)
      [] req.sender_auth # None /\ req.sender_auth.val.type = "CfTlsClientAuth" ->
            AuthOutcome(cf_tls_client_auth_authorized(req), {})

\* A DapRequest as the router builds it: the media type is the parse of the
\* content-type header under the version of the request's path.
DapRequest(version, content_type, task_id, auth) ==
    [version |-> version, content_type |-> content_type,
     media_type |-> from_str_for_version(version, content_type),
     task_id |-> task_id, sender_auth |-> auth]

\* Result<T, DapError>
Ok(v) == [ok |-> TRUE, val |-> v]

Err(e) == [ok |-> FALSE, val |-> e]

\* An authorize that hands out the leader token whatever the media type's sender.
authorize_with_bearer_token_AnySender(task_id, media_type) ==
    IF get_leader_bearer_token_for(task_id) = None
    THEN Err("Fatal")
    ELSE Ok(get_leader_bearer_token_for(task_id).val)

\* BearerTokenProvider::authorize_with_bearer_token
authorize_with_bearer_token(task_id, media_type) ==
    IF sender(media_type) = Some("Leader")
    THEN IF get_leader_bearer_token_for(task_id) = None
         THEN Err("Fatal")
         ELSE Ok(get_leader_bearer_token_for(task_id).val)
    ELSE Err("Fatal")

\* DapAuthorizedSender::authorize for DaphneWorker
authorize(task_id, media_type) ==
    LET token == authorize_with_bearer_token(task_id, media_type)
    IN  IF token.ok THEN Ok(BearerTokenAuth(token.val)) ELSE token

(***************************************************************************)
(* Task parameters, time and batch buckets                                 *)
(***************************************************************************)
\* The largest report time and clock value explored.
MaxTime == 4

\* The most output shares merged into the task's aggregate store in one run.
MaxShares == 3

\* The most report shares in one aggregation job.
MaxJobReports == 2

\* DapTaskConfig.time_precision of the (time-interval) task.
time_precision == 2

\* DapGlobalConfig.report_storage_epoch_duration
report_storage_epoch_duration == 4

\* DapGlobalConfig.report_storage_max_future_time_skew
report_storage_max_future_time_skew == 1

Times == 0..MaxTime

\* The largest clock value explored: late enough for the oldest report times to
\* fall out of the valid window.
MaxClock == MaxTime + 2

ReportIds == {1, 2}

\* CollectionJobId values.
CollectIds == {"c1", "c2"}

\* DapBatchBucket::TimeInterval { batch_window }: the windows of the task.
Windows == { t \in Times : t % time_precision = 0 }

\* DapTaskConfig::quantized_time_lower_bound: the window a report time falls in.
quantized_time_lower_bound(time) == time - (time % time_precision)

\* BatchSelector::TimeInterval { batch_interval: Interval { start, duration } },
\* aligned with time_precision.
BatchSelectors ==
    { [start |-> st, duration |-> d] :
        <<st, d>> \in { <<x, y>> \in Windows \X (1..(MaxTime + time_precision)) :
                            y % time_precision = 0 /\ x + y - time_precision \in Windows } }

\* DapTaskConfig::batch_span_for_sel: the buckets of a time-interval selector.
batch_span_for_sel(batch_sel) ==
    { batch_sel.start + i * time_precision :
        i \in 0..((batch_sel.duration \div time_precision) - 1) }

\* A set of buckets as the list of requests built by iterating over it.
RECURSIVE SetToSeq(_)
SetToSeq(S) ==
    IF S = {} THEN <<>>
    ELSE LET x == CHOOSE y \in S : \A z \in S : y <= z
         IN  <<x>> \o SetToSeq(S \ {x})

(***************************************************************************)
(* Aggregate shares                                                        *)
(***************************************************************************)
\* Bitwise exclusive or of two naturals.
RECURSIVE Xor(_, _)
Xor(a, b) ==
    IF a = 0 THEN b
    ELSE IF b = 0 THEN a
    ELSE ((a + b) % 2) + 2 * Xor(a \div 2, b \div 2)

\* DapAggregateShare::default
EmptyShare == [report_count |-> 0, checksum |-> 0, data |-> 0]

\* DapAggregateShare::merge
ShareMerge(x, y) ==
    [report_count |-> x.report_count + y.report_count,
     checksum |-> Xor(x.checksum, y.checksum),
     data |-> x.data + y.data]

\* DapOutputShare of a report: its time, its checksum (the report id) and its
\* share of the measurement.
OutputShare(id, time) == [time |-> time, checksum |-> id, data |-> id]

OutputShares == { OutputShare(id, t) : id \in ReportIds, t \in Times }

\* The aggregate share of the output shares at positions i.. that fall in bucket w.
RECURSIVE ShareOfBucket(_, _, _)
ShareOfBucket(out_shares, w, i) ==
    IF i > Len(out_shares) THEN EmptyShare
    ELSE LET o == out_shares[i]
             rest == ShareOfBucket(out_shares, w, i + 1)
         IN  IF quantized_time_lower_bound(o.time) = w
             THEN ShareMerge([report_count |-> 1, checksum |-> o.checksum, data |-> o.data],
                             rest)
             ELSE rest

\* DapTaskConfig::batch_span_for_out_shares: bucket -> aggregate share of the
\* output shares falling in it.
batch_span_for_out_shares(out_shares) ==
    [ w \in { quantized_time_lower_bound(out_shares[i].time) : i \in 1..Len(out_shares) }
        |-> ShareOfBucket(out_shares, w, 1) ]

(***************************************************************************)
(* Durable objects                                                         *)
(***************************************************************************)
\* AggregateStore, DURABLE_AGGREGATE_STORE_MERGE: a collected bucket refuses.
AggregateStoreMergeFails(entry) == entry.collected

AggregateStoreMerge(entry, agg_share_delta) ==
    [entry EXCEPT !.agg_share = ShareMerge(entry.agg_share, agg_share_delta)]

\* AggregateStore, DURABLE_AGGREGATE_STORE_MARK_COLLECTED
AggregateStoreMarkCollected(entry) == [entry EXCEPT !.collected = TRUE]

\* AggregateStore, DURABLE_AGGREGATE_STORE_CHECK_COLLECTED
AggregateStoreCheckCollected(entry) == entry.collected

\* AggregateStore, DURABLE_AGGREGATE_STORE_GET
AggregateStoreGet(entry) == entry.agg_share

\* The number of output shares held by the buckets ws of an aggregate store.
RECURSIVE StoredCount(_, _)
StoredCount(store, ws) ==
    IF ws = {} THEN 0
    ELSE LET w == CHOOSE x \in ws : TRUE
         IN  store[w].agg_share.report_count + StoredCount(store, ws \ {w})

(***************************************************************************)
(* DapAggregator for DaphneWorker: the aggregate store                     *)
(***************************************************************************)
Call(op, arg, val) == Some([op |-> op, arg |-> arg, val |-> val])

\* A put_out_shares that drops the outcome of the merge requests.
put_out_shares_result_Ignored(failed) == Ok("unit")

\* put_out_shares, dap.rs:538-539: the first failed merge fails the call.
put_out_shares_result(failed) ==
    IF failed = {} THEN Ok("unit") ELSE Err("BatchCollected")

\* put_out_shares: one merge request per bucket of the output shares' span, all
\* awaited together. When one fails the call returns at once, and each other
\* request has been served by its bucket or not.
PutOutShares ==
    /\ ret = None
    /\ \E n \in 1..MaxJobReports :
      /\ StoredCount(aggStore, Windows) + n <= MaxShares
      /\ \E out_shares \in [1..n -> OutputShares] :
        LET span == batch_span_for_out_shares(out_shares)
            failed == { w \in DOMAIN span : AggregateStoreMergeFails(aggStore[w]) }
        IN  /\ Len(out_shares) = n
            /\ \E served \in SUBSET (DOMAIN span \ failed) :
                /\ failed = {} => served = DOMAIN span
                /\ aggStore' = [ w \in Windows |->
                                    IF w \in served
                                    THEN AggregateStoreMerge(aggStore[w], span[w])
                                    ELSE aggStore[w] ]
            /\ ret' = Call("put_out_shares", out_shares, put_out_shares_result(failed))
    /\ UNCHANGED <<reportsProcessed, colQueue, now, accepted>>
    /\ UNCHANGED <<authVars, taskVars, jobVars>>

\* A mark_collected whose requests flip the collected flag of their bucket.
mark_collected_span_Toggle(store, batch_sel) ==
    [ w \in Windows |->
        IF w \in batch_span_for_sel(batch_sel)
        THEN [store[w] EXCEPT !.collected = ~store[w].collected]
        ELSE store[w] ]

\* mark_collected, dap.rs:678-689: one MARK_COLLECTED request per bucket of the
\* selector's span; the store once all are served.
mark_collected_span(store, batch_sel) ==
    [ w \in Windows |->
        IF w \in batch_span_for_sel(batch_sel)
        THEN AggregateStoreMarkCollected(store[w])
        ELSE store[w] ]

\* mark_collected
MarkCollected ==
    /\ ret = None
    /\ \E batch_sel \in BatchSelectors :
        /\ aggStore' = mark_collected_span(aggStore, batch_sel)
        /\ ret' = Call("mark_collected", batch_sel, Ok("unit"))
    /\ UNCHANGED <<reportsProcessed, colQueue, now, accepted>>
    /\ UNCHANGED <<authVars, taskVars, jobVars>>

\* The caller of a mark_collected that has just returned calls it again over
\* the same batch selector; the store as the first call left it is noted.
MarkCollectedAgain ==
    /\ ret # None
    /\ ret.val.op = "mark_collected"
    /\ aggStore' = mark_collected_span(aggStore, ret.val.arg)
    /\ ret' = Call("mark_collected_again",
                   [batch_sel |-> ret.val.arg, once |-> aggStore], Ok("unit"))
    /\ UNCHANGED <<reportsProcessed, colQueue, now, accepted>>
    /\ UNCHANGED <<authVars, taskVars, jobVars>>

\* An overlap loop that looks at the first response only.
overlap_loop_FirstOnly(responses, i) ==
    Len(responses) > 0 /\ responses[1]

\* is_batch_overlapping, dap.rs:482-488: true at the first collected response.
RECURSIVE overlap_loop(_, _)
overlap_loop(responses, i) ==
    IF i > Len(responses) THEN FALSE
    ELSE IF responses[i] THEN TRUE
    ELSE overlap_loop(responses, i + 1)

\* is_batch_overlapping on the current store.
is_batch_overlapping(batch_sel) ==
    LET buckets == SetToSeq(batch_span_for_sel(batch_sel))
        responses == [ i \in 1..Len(buckets) |->
                         AggregateStoreCheckCollected(aggStore[buckets[i]]) ]
    IN  overlap_loop(responses, 1)

IsBatchOverlapping ==
    /\ ret = None
    /\ \E batch_sel \in BatchSelectors :
        ret' = Call("is_batch_overlapping", batch_sel, Ok(is_batch_overlapping(batch_sel)))
    /\ UNCHANGED <<aggStore, reportsProcessed, colQueue, now, accepted>>
    /\ UNCHANGED <<authVars, taskVars, jobVars>>

\* A get_agg_share that keeps the last response instead of merging them.
merge_responses_LastOnly(responses, i) ==
    IF Len(responses) = 0 THEN EmptyShare ELSE responses[Len(responses)]

\* get_agg_share, dap.rs:561-564: the responses merged into a default share.
RECURSIVE merge_responses(_, _)
merge_responses(responses, i) ==
    IF i > Len(responses) THEN EmptyShare
    ELSE ShareMerge(responses[i], merge_responses(responses, i + 1))

get_agg_share(batch_sel) ==
    LET buckets == SetToSeq(batch_span_for_sel(batch_sel))
        responses == [ i \in 1..Len(buckets) |-> AggregateStoreGet(aggStore[buckets[i]]) ]
    IN  merge_responses(responses, 1)

GetAggShare ==
    /\ ret = None
    /\ \E batch_sel \in BatchSelectors :
        ret' = Call("get_agg_share", batch_sel, Ok(get_agg_share(batch_sel)))
    /\ UNCHANGED <<aggStore, reportsProcessed, colQueue, now, accepted>>
    /\ UNCHANGED <<authVars, taskVars, jobVars>>

(***************************************************************************)
(* DapLeader for DaphneWorker: the collection job queue                    *)
(***************************************************************************)
\* Collection: the response released to the Collector (time-interval batches).
Collections ==
    { [part_batch_sel |-> "TimeInterval", report_count |-> n] : n \in 1..2 }

\* LeaderCollectionJobQueue, DURABLE_LEADER_COL_JOB_QUEUE_PUT: the job is queued
\* as pending under the requested (or an assigned) id; an id already in the
\* queue is reused and its job left as it is.
ColJobQueuePut(queue, collect_id, collect_req) ==
    IF queue[collect_id].state = "Unknown"
    THEN [queue EXCEPT ![collect_id] = [state |-> "Pending", collect_req |-> collect_req]]
    ELSE queue

\* LeaderCollectionJobQueue, DURABLE_LEADER_COL_JOB_QUEUE_FINISH
ColJobQueueFinish(queue, collect_id, collect_resp) ==
    IF queue[collect_id].state = "Pending"
    THEN [queue EXCEPT ![collect_id] =
            [state |-> "Done", collect_req |-> queue[collect_id].collect_req,
             collect_resp |-> collect_resp]]
    ELSE queue

\* LeaderCollectionJobQueue, DURABLE_LEADER_COL_JOB_QUEUE_GET_RESULT: DapCollectJob
ColJobQueueGetResult(queue, collect_id) ==
    CASE queue[collect_id].state = "Unknown" -> [state |-> "Unknown"]
      [] queue[collect_id].state = "Pending" -> [state |-> "Pending"]
      [] queue[collect_id].state = "Done" ->
            [state |-> "Done", collect_resp |-> queue[collect_id].collect_resp]

\* init_collect_job: the request is put into the collection job queue and the
\* polling URI of the assigned id returned. The aggregate store is not read.
InitCollectJob ==
    /\ ret = None
    /\ \E collect_job_id \in {None} \cup { Some(c) : c \in CollectIds },
          batch_sel \in BatchSelectors, assigned \in CollectIds :
        LET collect_id == IF collect_job_id = None THEN assigned ELSE collect_job_id.val
        IN  /\ collect_job_id # None => assigned = collect_job_id.val
            /\ colQueue' = ColJobQueuePut(colQueue, collect_id, batch_sel)
            /\ ret' = Call("init_collect_job", batch_sel, Ok(collect_id))
    /\ UNCHANGED <<aggStore, reportsProcessed, now, accepted>>
    /\ UNCHANGED <<authVars, taskVars, jobVars>>

\* A poll_collect_job that reports a finished job as still pending.
PollCollectJob_StalePending ==
    /\ ret = None
    /\ \E collect_id \in CollectIds :
        ret' = Call("poll_collect_job", collect_id,
                    Ok(IF colQueue[collect_id].state = "Unknown"
                       THEN [state |-> "Unknown"] ELSE [state |-> "Pending"]))
    /\ UNCHANGED <<aggStore, reportsProcessed, colQueue, now, accepted>>
    /\ UNCHANGED <<authVars, taskVars, jobVars>>

\* poll_collect_job
PollCollectJob ==
    /\ ret = None
    /\ \E collect_id \in CollectIds :
        ret' = Call("poll_collect_job", collect_id,
                    Ok(ColJobQueueGetResult(colQueue, collect_id)))
    /\ UNCHANGED <<aggStore, reportsProcessed, colQueue, now, accepted>>
    /\ UNCHANGED <<authVars, taskVars, jobVars>>

\* LeaderCollectionJobQueue, DURABLE_LEADER_COL_JOB_QUEUE_GET: the pending jobs,
\* each with its id and its request.
ColJobQueueGet(queue) ==
    { [collect_id |-> c, collect_req |-> queue[c].collect_req] :
        c \in { d \in CollectIds : queue[d].state = "Pending" } }

\* get_pending_collect_jobs
GetPendingCollectJobs ==
    /\ ret = None
    /\ ret' = Call("get_pending_collect_jobs", "unit", Ok(ColJobQueueGet(colQueue)))
    /\ UNCHANGED <<aggStore, reportsProcessed, colQueue, now, accepted>>
    /\ UNCHANGED <<authVars, taskVars, jobVars>>

\* finish_collect_job for a time-interval collection: no batch-queue removal,
\* then the queue's FINISH.
FinishCollectJob ==
    /\ ret = None
    /\ \E collect_id \in CollectIds, collect_resp \in Collections :
        /\ colQueue' = ColJobQueueFinish(colQueue, collect_id, collect_resp)
        /\ ret' = Call("finish_collect_job",
                       [collect_id |-> collect_id, collect_resp |-> collect_resp],
                       Ok("unit"))
    /\ UNCHANGED <<aggStore, reportsProcessed, now, accepted>>
    /\ UNCHANGED <<authVars, taskVars, jobVars>>

(***************************************************************************)
(* DapAggregator for DaphneWorker: check_early_reject                      *)
(***************************************************************************)
\* ReportMetadata { id, time }
ReportMetadatas == { [id |-> r, time |-> t] : r \in ReportIds, t \in Times }

ReportMetadataSeqs ==
    UNION { [1..n -> ReportMetadatas] : n \in 1..MaxJobReports }

\* DaphneWorkerConfig::durable_name_report_store: the ReportsProcessed instance
\* of a report is named after the storage epoch of its time.
durable_name_report_store(metadata) ==
    metadata.time - (metadata.time % report_storage_epoch_duration)

\* DapAggregator::least_valid_report_time (saturating subtraction)
least_valid_report_time(current_time) ==
    IF current_time < report_storage_epoch_duration THEN 0
    ELSE current_time - report_storage_epoch_duration

\* DapAggregator::greatest_valid_report_time
greatest_valid_report_time(current_time) ==
    current_time + report_storage_max_future_time_skew

\* roles::early_metadata_check
early_metadata_check(metadata, processed, collected, min_time, max_time) ==
    IF processed THEN Some("ReportReplayed")
    ELSE IF collected THEN Some("BatchCollected")
    ELSE IF metadata.time < min_time THEN Some("ReportDropped")
    ELSE IF metadata.time > max_time THEN Some("ReportTooEarly")
    ELSE None

\* check_early_reject, dap.rs:586-605: the report ids of the job grouped by
\* ReportsProcessed instance.
reports_processed_request_data(report_meta) ==
    [ name \in { durable_name_report_store(report_meta[i]) : i \in 1..Len(report_meta) }
        |-> { report_meta[i].id :
                i \in { j \in 1..Len(report_meta) :
                          durable_name_report_store(report_meta[j]) = name } } ]

\* ReportsProcessed, DURABLE_REPORTS_PROCESSED_MARK_AGGREGATED: the ids of the
\* request that the instance already held; all ids of the request are held
\* afterwards.
ReportsProcessedResponse(stored, ids) == stored \cap ids

ReportsProcessedMarkAggregated(stored, ids) == stored \cup ids

\* check_early_reject, dap.rs:578-592: the buckets of the reports' span, in the
\* order in which the CHECK_COLLECTED requests are built.
agg_store_request_bucket(report_meta) ==
    SetToSeq({ quantized_time_lower_bound(report_meta[i].time) : i \in 1..Len(report_meta) })

\* CHECK_COLLECTED answers handed back in the reverse of the request order.
agg_store_responses_Reversed(buckets) ==
    [ i \in 1..Len(buckets) |->
        AggregateStoreCheckCollected(aggStore[buckets[Len(buckets) + 1 - i]]) ]

\* check_early_reject, dap.rs:619-626 and 641-642: the CHECK_COLLECTED answers;
\* try_join_all hands them back in request order, in whatever order they arrive.
agg_store_responses(buckets) ==
    [ i \in 1..Len(buckets) |-> AggregateStoreCheckCollected(aggStore[buckets[i]]) ]

\* An evaluation that also drops a report whose time is min_time.
early_fails_MinExclusive(report_meta, processed_ids, min_time, max_time) ==
    LET verdict(i) ==
            early_metadata_check(
                report_meta[i],
                report_meta[i].id \in processed_ids,
                AggregateStoreCheckCollected(
                    aggStore[quantized_time_lower_bound(report_meta[i].time)]),
                min_time + 1, max_time)
        failing == { i \in 1..Len(report_meta) : verdict(i) # None }
    IN  [ id \in { report_meta[i].id : i \in failing } |->
            verdict(CHOOSE i \in failing : report_meta[i].id = id).val ]

\* check_early_reject, dap.rs:651-664: the failure of each report, by report id;
\* each bucket is zipped with the answer at its position, and the reports of the
\* bucket are judged with that answer.
early_fails(report_meta, processed_ids, min_time, max_time) ==
    LET buckets == agg_store_request_bucket(report_meta)
        responses == agg_store_responses(buckets)
        collected(i) ==
            responses[CHOOSE k \in 1..Len(buckets) :
                        buckets[k] = quantized_time_lower_bound(report_meta[i].time)]
        verdict(i) ==
            early_metadata_check(
                report_meta[i],
                report_meta[i].id \in processed_ids,
                collected(i),
                min_time, max_time)
        failing == { i \in 1..Len(report_meta) : verdict(i) # None }
    IN  [ id \in { report_meta[i].id : i \in failing } |->
            verdict(CHOOSE i \in failing : report_meta[i].id = id).val ]

\* The ids a check_early_reject call lets through.
Passed(report_meta, fails) ==
    { report_meta[i].id : i \in 1..Len(report_meta) } \ DOMAIN fails

\* A check_early_reject that records only the ids of the reports it lets through.
check_early_reject_MarkPassedOnly(report_meta) ==
    LET data == reports_processed_request_data(report_meta)
        processed_ids ==
            UNION { ReportsProcessedResponse(reportsProcessed[name], data[name]) :
                      name \in DOMAIN data }
        fails == early_fails(report_meta, processed_ids,
                             least_valid_report_time(now),
                             greatest_valid_report_time(now))
    IN  [reports_processed |->
            [ name \in DOMAIN reportsProcessed |->
                IF name \in DOMAIN data
                THEN ReportsProcessedMarkAggregated(reportsProcessed[name],
                                                    data[name] \ DOMAIN fails)
                ELSE reportsProcessed[name] ],
         early_fails |-> fails]

\* check_early_reject, dap.rs:607-666: the ReportsProcessed instances mark the
\* report ids and answer with those they held, and the failures are decided.
check_early_reject(report_meta) ==
    LET data == reports_processed_request_data(report_meta)
        processed_ids ==
            UNION { ReportsProcessedResponse(reportsProcessed[name], data[name]) :
                      name \in DOMAIN data }
    IN  [reports_processed |->
            [ name \in DOMAIN reportsProcessed |->
                IF name \in DOMAIN data
                THEN ReportsProcessedMarkAggregated(reportsProcessed[name], data[name])
                ELSE reportsProcessed[name] ],
         early_fails |->
            early_fails(report_meta, processed_ids,
                        least_valid_report_time(now),
                        greatest_valid_report_time(now))]

CheckEarlyReject ==
    /\ ret = None
    /\ \E report_meta \in ReportMetadataSeqs :
        LET res == check_early_reject(report_meta)
        IN  /\ reportsProcessed' = res.reports_processed
            /\ accepted' = [ r \in ReportIds |->
                              IF r \in Passed(report_meta, res.early_fails) /\ accepted[r] < 2
                              THEN accepted[r] + 1 ELSE accepted[r] ]
            /\ ret' = Call("check_early_reject", report_meta, Ok(res.early_fails))
    /\ UNCHANGED <<aggStore, colQueue, now>>
    /\ UNCHANGED <<authVars, taskVars, jobVars>>

\* An aggregation job as the Leader builds it from pending reports: at least
\* one of its reports has not been through check_early_reject before.
CheckPendingReports ==
    /\ ret = None
    /\ \E report_meta \in ReportMetadataSeqs :
        LET res == check_early_reject(report_meta)
        IN  /\ \E i \in 1..Len(report_meta) :
                  \A name \in DOMAIN reportsProcessed :
                      report_meta[i].id \notin reportsProcessed[name]
            /\ reportsProcessed' = res.reports_processed
            /\ accepted' = [ r \in ReportIds |->
                              IF r \in Passed(report_meta, res.early_fails) /\ accepted[r] < 2
                              THEN accepted[r] + 1 ELSE accepted[r] ]
            /\ ret' = Call("check_early_reject", report_meta, Ok(res.early_fails))
    /\ UNCHANGED <<aggStore, colQueue, now>>
    /\ UNCHANGED <<authVars, taskVars, jobVars>>

\* The Helper processes the same AggJobInitReq a second time: check_early_reject
\* runs again on the report metadata of the request just processed; the outcomes
\* of both runs are kept.
CheckEarlyRejectAgain ==
    /\ ret # None
    /\ ret.val.op = "check_early_reject"
    /\ LET report_meta == ret.val.arg
           res == check_early_reject(report_meta)
       IN  /\ reportsProcessed' = res.reports_processed
           /\ accepted' = [ r \in ReportIds |->
                             IF r \in Passed(report_meta, res.early_fails) /\ accepted[r] < 2
                             THEN accepted[r] + 1 ELSE accepted[r] ]
           /\ ret' = Call("check_early_reject_again", report_meta,
                          [first |-> ret.val.val, second |-> Ok(res.early_fails)])
    /\ UNCHANGED <<aggStore, colQueue, now>>
    /\ UNCHANGED <<authVars, taskVars, jobVars>>

\* Time passes.
Tick ==
    /\ ret = None
    /\ now < MaxClock
    /\ now' = now + 1
    /\ UNCHANGED <<aggStore, reportsProcessed, colQueue, accepted, ret>>
    /\ UNCHANGED <<authVars, taskVars, jobVars>>

\* The call returns to its caller.
Return ==
    /\ ret # None
    /\ ret' = None
    /\ UNCHANGED <<aggStore, reportsProcessed, colQueue, now, accepted>>
    /\ UNCHANGED <<authVars, taskVars, jobVars>>

(***************************************************************************)
(* The media-type codec at work: daphne/src/constants.rs                   *)
(***************************************************************************)
\* DapMediaType values: the unit variants, Invalid(raw) for a raw string of
\* either table or of neither, and Missing.
MediaTypes ==
    { Kind(k) : k \in KnownKinds }
    \cup { Invalid(c.val) : c \in ContentTypes \ {None} }
    \cup {Missing}

\* A receiver parses the content-type header of a request of some version.
FromStrForVersion ==
    /\ ret = None
    /\ \E version \in DapVersion, content_type \in ContentTypes :
        ret' = Call("from_str_for_version",
                    [version |-> version, content_type |-> content_type],
                    from_str_for_version(version, content_type))
    /\ UNCHANGED <<aggStore, reportsProcessed, colQueue, now, accepted>>
    /\ UNCHANGED <<authVars, taskVars, jobVars>>

\* A sender renders the content-type header of a message of some version.
AsStrForVersion ==
    /\ ret = None
    /\ \E version \in DapVersion, media \in MediaTypes :
        ret' = Call("as_str_for_version",
                    [version |-> version, media |-> media],
                    as_str_for_version(media, version))
    /\ UNCHANGED <<aggStore, reportsProcessed, colQueue, now, accepted>>
    /\ UNCHANGED <<authVars, taskVars, jobVars>>

\* A header rendered by the sender is parsed by the receiver under the same
\* version.
RenderThenParse ==
    /\ ret = None
    /\ \E version \in DapVersion, media \in MediaTypes :
        ret' = Call("render_then_parse",
                    [version |-> version, media |-> media],
                    from_str_for_version(version, as_str_for_version(media, version)))
    /\ UNCHANGED <<aggStore, reportsProcessed, colQueue, now, accepted>>
    /\ UNCHANGED <<authVars, taskVars, jobVars>>

\* The sender of a media type is looked up.
Sender ==
    /\ ret = None
    /\ \E media \in MediaTypes :
        ret' = Call("sender", media, sender(media))
    /\ UNCHANGED <<aggStore, reportsProcessed, colQueue, now, accepted>>
    /\ UNCHANGED <<authVars, taskVars, jobVars>>

(***************************************************************************)
(* Authorizing an outgoing request                                         *)
(***************************************************************************)
\* The Leader asks authorize for the credential of a request it is about to
\* send; with a credential, the request goes out with the content type of its
\* media type and is checked by unauthorized_reason against the same token
\* stores. Without one, nothing is sent.
Authorize ==
    /\ ret = None
    /\ authReq = None
    /\ \E version \in DapVersion, task_id \in TaskIds, media_type \in MediaTypes :
        LET auth == authorize(task_id, media_type)
            req == DapRequest(version, as_str_for_version(media_type, version),
                              Some(task_id), Some(auth.val))
        IN  /\ ret' = Call("authorize",
                           [version |-> version, task_id |-> task_id,
                            media_type |-> media_type],
                           auth)
            /\ IF auth.ok
               THEN /\ authReq' = Some(req)
                    /\ authRes' = Some(unauthorized_reason(req))
               ELSE UNCHANGED <<authReq, authRes>>
    /\ UNCHANGED <<leaderTokens, collectorTokens, taskprov, allowTaskprov>>
    /\ UNCHANGED <<aggStore, reportsProcessed, colQueue, now, accepted>>
    /\ UNCHANGED <<taskVars, jobVars>>

(***************************************************************************)
(* Task resolution with taskprov: get_task_config_considering_taskprov     *)
(***************************************************************************)
\* Request contexts that may resolve tasks at the same time.
Procs == {1, 2}

\* Encoded taskprov task configurations carried by reports.
Payloads == {"payload1", "payload2"}

\* taskprov::compute_task_id: the task id an encoded configuration derives to.
compute_task_id(payload) ==
    CASE payload = "payload1" -> "t1"
      [] payload = "payload2" -> "t2"

\* Extension::Taskprov { payload }
TaskprovExtension(payload) == [type |-> "Taskprov", payload |-> payload]

\* The metadata argument: absent, or report metadata with or without a taskprov
\* extension.
ResolveMetadatas ==
    {None}
    \cup {Some([extensions |-> <<>>])}
    \cup { Some([extensions |-> <<TaskprovExtension(pl)>>]) : pl \in Payloads }

\* DapError::Abort(DapAbort::InvalidTask { detail, task_id })
InvalidTask(detail, task_id) ==
    [error |-> "InvalidTask", detail |-> detail, task_id |-> task_id]

\* DapError::Fatal
Fatal(detail) == [error |-> "Fatal", detail |-> detail]

\* A task configured out of band.
StaticTaskConfig == [version |-> "Draft04", taskprov |-> None, vdaf_verify_key |-> "static"]

\* taskprov::get_taskprov_task_config: the taskprov extension of the metadata,
\* if any, decoded after checking that it derives to the task id.
get_taskprov_task_config(task_id, metadata) ==
    LET taskprovs == SelectSeq(metadata.extensions, LAMBDA x : x.type = "Taskprov")
    IN  IF Len(taskprovs) = 0 THEN Ok(None)
        ELSE IF compute_task_id(taskprovs[1].payload) # task_id
        THEN Err(InvalidTask("task ID does not match the taskprov extension", task_id))
        ELSE Ok(Some(taskprovs[1].payload))

\* DapTaskConfig::try_from_taskprov: the task configuration of the request's
\* version, with the verify key derived from the key init and the task id.
try_from_taskprov(version, task_id, taskprov_task_config) ==
    Ok([version |-> version, taskprov |-> Some(taskprov_task_config),
        vdaf_verify_key |-> <<"vdaf_verify_key_init", task_id>>])

\* taskprov_opt_out_reason: always opt in.
taskprov_opt_out_reason(task_config) == Ok(None)

\* A resolution that materializes a task although the feature flag is off.
taskprov_path_FlagIgnored(version, task_id, metadata) ==
    IF metadata = None THEN [done |-> TRUE, result |-> Ok(None)]
    ELSE LET taskprov_task_config == get_taskprov_task_config(task_id, metadata.val)
         IN  IF ~taskprov_task_config.ok
             THEN [done |-> TRUE, result |-> taskprov_task_config]
             ELSE IF taskprov_task_config.val = None
             THEN [done |-> TRUE, result |-> Ok(None)]
             ELSE IF taskprov = None
             THEN [done |-> TRUE,
                   result |-> Err(Fatal("taskprov configuration not found"))]
             ELSE [done |-> FALSE,
                   task_config |-> try_from_taskprov(version, task_id,
                                        taskprov_task_config.val.val).val]

\* A resolution that treats metadata without a taskprov extension as a bad task.
taskprov_path_ExtensionRequired(version, task_id, metadata) ==
    IF metadata = None THEN [done |-> TRUE, result |-> Ok(None)]
    ELSE LET taskprov_task_config == get_taskprov_task_config(task_id, metadata.val)
         IN  IF ~taskprov_task_config.ok
             THEN [done |-> TRUE, result |-> taskprov_task_config]
             ELSE IF taskprov_task_config.val = None
             THEN [done |-> TRUE,
                   result |-> Err(InvalidTask("no taskprov extension", task_id))]
             ELSE IF ~allowTaskprov
             THEN [done |-> TRUE,
                   result |-> Err(InvalidTask("Taskprov extension is disabled.", task_id))]
             ELSE IF taskprov = None
             THEN [done |-> TRUE,
                   result |-> Err(Fatal("taskprov configuration not found"))]
             ELSE [done |-> FALSE,
                   task_config |-> try_from_taskprov(version, task_id,
                                        taskprov_task_config.val.val).val]

\* get_task_config_considering_taskprov, dap.rs:380-422: what a resolution that
\* found no stored task decides before its first write.
taskprov_path(version, task_id, metadata) ==
    IF metadata = None THEN [done |-> TRUE, result |-> Ok(None)]
    ELSE LET taskprov_task_config == get_taskprov_task_config(task_id, metadata.val)
         IN  IF ~taskprov_task_config.ok
             THEN [done |-> TRUE, result |-> taskprov_task_config]
             ELSE IF taskprov_task_config.val = None
             THEN [done |-> TRUE, result |-> Ok(None)]
             ELSE IF ~allowTaskprov
             THEN [done |-> TRUE,
                   result |-> Err(InvalidTask("Taskprov extension is disabled.", task_id))]
             ELSE IF taskprov = None
             THEN [done |-> TRUE,
                   result |-> Err(Fatal("taskprov configuration not found"))]
             ELSE LET task_config == try_from_taskprov(version, task_id,
                                        taskprov_task_config.val.val)
                      reason == taskprov_opt_out_reason(task_config.val)
                  IN  IF ~task_config.ok
                      THEN [done |-> TRUE, result |-> task_config]
                      ELSE IF reason.val # None
                      THEN [done |-> TRUE,
                            result |-> Err(InvalidTask(reason.val.val, task_id))]
                      ELSE [done |-> FALSE, task_config |-> task_config.val]

\* A request context that resolves no task.
IdleCall == [pc |-> "idle"]

\* A resolution that has returned.
DoneCall(version, task_id, metadata, result) ==
    [pc |-> "done", version |-> version, task_id |-> task_id, metadata |-> metadata,
     result |-> result]

\* A resolution suspended before the KV operation pc.
PendingCall(pc, version, task_id, metadata, task_config) ==
    [pc |-> pc, version |-> version, task_id |-> task_id, metadata |-> metadata,
     task_config |-> task_config]

\* A first lookup that never finds the task.
first_get_task_config_NeverFound(task_id) == None

\* get_task_config_considering_taskprov, dap.rs:373-376: the first get_task_config.
first_get_task_config(task_id) == taskConfigs[task_id]

\* The call up to its first suspension after get_task_config: it returns the
\* stored task, or decides on the taskprov path and either returns or goes on
\* to write.
Lookup(p, version, task_id, metadata) ==
    LET found == first_get_task_config(task_id)
        path == taskprov_path(version, task_id, metadata)
    IN  /\ resolving' = [resolving EXCEPT ![p] =
                IF found # None
                THEN DoneCall(version, task_id, metadata, Ok(found))
                ELSE IF path.done
                THEN DoneCall(version, task_id, metadata, path.result)
                ELSE PendingCall(
                        IF taskprov.val.leader_auth.type = "BearerToken"
                        THEN "set_leader_bearer_token" ELSE "set_task_config",
                        version, task_id, metadata, path.task_config)]
        /\ UNCHANGED <<taskConfigs, leaderTokens>>

\* Some request context starts a resolution.
ResolveLookup(p) ==
    /\ resolving[p].pc = "idle"
    /\ \E version \in DapVersion, task_id \in TaskIds, metadata \in ResolveMetadatas :
        Lookup(p, version, task_id, metadata)
    /\ UNCHANGED <<collectorTokens, taskprov, allowTaskprov, authReq, authRes>>
    /\ UNCHANGED <<durableVars, jobVars>>

\* A request context starts a resolution with the arguments of the resolution
\* the other context is in, if it is in one.
ResolveLookupSame(p) ==
    /\ resolving[p].pc = "idle"
    /\ \E version \in DapVersion, task_id \in TaskIds, metadata \in ResolveMetadatas :
        /\ \A q \in Procs \ {p} :
              resolving[q].pc # "idle"
              => /\ resolving[q].version = version
                 /\ resolving[q].task_id = task_id
                 /\ resolving[q].metadata = metadata
        /\ Lookup(p, version, task_id, metadata)
    /\ UNCHANGED <<collectorTokens, taskprov, allowTaskprov, authReq, authRes>>
    /\ UNCHANGED <<durableVars, jobVars>>

\* A resolution that goes on to the task configuration without writing the
\* leader bearer token.
ResolveSetLeaderBearerToken_NoWrite(p) ==
    /\ resolving[p].pc = "set_leader_bearer_token"
    /\ resolving' = [resolving EXCEPT ![p].pc = "set_task_config"]
    /\ UNCHANGED <<taskConfigs, leaderTokens, collectorTokens, taskprov, allowTaskprov,
                   authReq, authRes>>
    /\ UNCHANGED <<durableVars, jobVars>>

\* dap.rs:429-435: set_leader_bearer_token
ResolveSetLeaderBearerToken(p) ==
    /\ resolving[p].pc = "set_leader_bearer_token"
    /\ leaderTokens' = [leaderTokens EXCEPT ![resolving[p].task_id] =
                            Some(taskprov.val.leader_auth.token)]
    /\ resolving' = [resolving EXCEPT ![p].pc = "set_task_config"]
    /\ UNCHANGED <<taskConfigs, collectorTokens, taskprov, allowTaskprov, authReq, authRes>>
    /\ UNCHANGED <<durableVars, jobVars>>

\* dap.rs:441-443: set_task_config
ResolveSetTaskConfig(p) ==
    /\ resolving[p].pc = "set_task_config"
    /\ taskConfigs' = [taskConfigs EXCEPT ![resolving[p].task_id] =
                            Some(resolving[p].task_config)]
    /\ resolving' = [resolving EXCEPT ![p].pc = "get_task_config"]
    /\ UNCHANGED <<leaderTokens, collectorTokens, taskprov, allowTaskprov, authReq, authRes>>
    /\ UNCHANGED <<durableVars, jobVars>>

\* A last step that returns what the first lookup found: nothing.
ResolveGetTaskConfig_ReturnsFound(p) ==
    /\ resolving[p].pc = "get_task_config"
    /\ resolving' = [resolving EXCEPT ![p] =
            DoneCall(resolving[p].version, resolving[p].task_id, resolving[p].metadata,
                     Ok(None))]
    /\ UNCHANGED <<taskConfigs, leaderTokens, collectorTokens, taskprov, allowTaskprov,
                   authReq, authRes>>
    /\ UNCHANGED <<durableVars, jobVars>>

\* dap.rs:446-448: the usual get again, whose answer is returned.
ResolveGetTaskConfig(p) ==
    /\ resolving[p].pc = "get_task_config"
    /\ resolving' = [resolving EXCEPT ![p] =
            DoneCall(resolving[p].version, resolving[p].task_id, resolving[p].metadata,
                     Ok(taskConfigs[resolving[p].task_id]))]
    /\ UNCHANGED <<taskConfigs, leaderTokens, collectorTokens, taskprov, allowTaskprov,
                   authReq, authRes>>
    /\ UNCHANGED <<durableVars, jobVars>>

\* dap.rs:433-434, 442-443, 447-448: the KV operation the resolution is about
\* to make fails and the call returns the error, nothing written.
ResolveFails(p) ==
    /\ resolving[p].pc \in {"set_leader_bearer_token", "set_task_config", "get_task_config"}
    /\ resolving' = [resolving EXCEPT ![p] =
            DoneCall(resolving[p].version, resolving[p].task_id, resolving[p].metadata,
                     Err(Fatal("kv")))]
    /\ UNCHANGED <<taskConfigs, leaderTokens, collectorTokens, taskprov, allowTaskprov,
                   authReq, authRes>>
    /\ UNCHANGED <<durableVars, jobVars>>

\* The request context of a finished resolution ends.
ResolveReturn(p) ==
    /\ resolving[p].pc = "done"
    /\ resolving' = [resolving EXCEPT ![p] = IdleCall]
    /\ UNCHANGED <<taskConfigs, leaderTokens, collectorTokens, taskprov, allowTaskprov,
                   authReq, authRes>>
    /\ UNCHANGED <<durableVars, jobVars>>

(***************************************************************************)
(* put_out_shares, one merge request at a time                             *)
(***************************************************************************)
\* The number of output shares sent to the task's buckets so far.
SentCount == StoredCount([ w \in Windows |-> [agg_share |-> mergeSent[w]] ], Windows)

\* A put_out_shares that sends the merge request of one bucket of the span only.
PutOutSharesSend_FirstBucketOnly ==
    \E n \in 1..MaxJobReports :
      /\ SentCount + n <= MaxShares
      /\ \E out_shares \in [1..n -> OutputShares] :
        LET span == batch_span_for_out_shares(out_shares)
            first == CHOOSE w \in DOMAIN span : \A x \in DOMAIN span : w <= x
        IN  /\ Len(out_shares) = n
            /\ mergeRequests' = mergeRequests \cup
                    {[call |-> SentCount, bucket |-> first, agg_share |-> span[first]]}
            /\ mergeSent' = [ w \in Windows |->
                                IF w \in DOMAIN span
                                THEN ShareMerge(mergeSent[w], span[w])
                                ELSE mergeSent[w] ]
            /\ UNCHANGED <<helperState, batchQueue, batchRemoved, reportsPending, pendingStore>>
            /\ UNCHANGED <<authVars, taskVars, durableVars>>

\* put_out_shares, dap.rs:524-537: one merge request per bucket of the output
\* shares' span, each carrying the aggregate share of the bucket's output shares.
PutOutSharesSend ==
    \E n \in 1..MaxJobReports :
      /\ SentCount + n <= MaxShares
      /\ \E out_shares \in [1..n -> OutputShares] :
        LET span == batch_span_for_out_shares(out_shares)
        IN  /\ Len(out_shares) = n
            /\ mergeRequests' = mergeRequests \cup
                    { [call |-> SentCount, bucket |-> w, agg_share |-> span[w]] :
                        w \in DOMAIN span }
            /\ mergeSent' = [ w \in Windows |->
                                IF w \in DOMAIN span
                                THEN ShareMerge(mergeSent[w], span[w])
                                ELSE mergeSent[w] ]
            /\ UNCHANGED <<helperState, batchQueue, batchRemoved, reportsPending, pendingStore>>
            /\ UNCHANGED <<authVars, taskVars, durableVars>>

\* The actor of a bucket serves one of the merge requests sent to it, whichever
\* reaches it first; a collected bucket refuses.
AggregateStoreServeMerge ==
    \E r \in mergeRequests :
        /\ mergeRequests' = mergeRequests \ {r}
        /\ aggStore' = [aggStore EXCEPT ![r.bucket] =
                            IF AggregateStoreMergeFails(@) THEN @
                            ELSE AggregateStoreMerge(@, r.agg_share)]
        /\ UNCHANGED <<reportsProcessed, colQueue, now, accepted, ret>>
        /\ UNCHANGED <<mergeSent, helperState, batchQueue, batchRemoved, reportsPending, pendingStore>>
        /\ UNCHANGED <<authVars, taskVars>>

(***************************************************************************)
(* DapHelper for DaphneWorker: the helper state store                      *)
(***************************************************************************)
\* MetaAggregationJobId values.
AggJobIds == {"j1", "j2"}

\* The most reports in a helper state.
MaxStateReports == 1

\* DapHelperState: the reports of the job still in preparation, in order.
HelperStates ==
    { [seq |-> q] : q \in UNION { [1..n -> ReportIds] : n \in 0..MaxStateReports } }

\* DapHelperState::get_encoded: the length of the list, then its items.
get_encoded(helper_state) == <<Len(helper_state.seq)>> \o helper_state.seq

\* DapHelperState::get_decoded: the items, if the length prefix is right.
get_decoded(data) ==
    IF Len(data) = 0 \/ data[1] # Len(data) - 1
    THEN Err(Fatal("helper state decoding"))
    ELSE Ok([seq |-> Tail(data)])

\* hex::encode: two hex digits per byte, the high one first.
hex_encode(data) ==
    [ i \in 1..(2 * Len(data)) |->
        IF i % 2 = 1 THEN data[(i + 1) \div 2] \div 16 ELSE data[i \div 2] % 16 ]

\* hex::decode: fails on an odd number of digits.
hex_decode(str) ==
    IF Len(str) % 2 = 1 THEN Err(Fatal("odd number of digits"))
    ELSE Ok([ i \in 1..(Len(str) \div 2) |-> 16 * str[2 * i - 1] + str[2 * i] ])

\* DapAbort::UnrecognizedTask
UnrecognizedTask == [error |-> "UnrecognizedTask"]

\* DaphneWorker::try_get_task_config: the stored configuration, or an abort.
try_get_task_config(task_id) ==
    IF taskConfigs[task_id] = None THEN Err(UnrecognizedTask)
    ELSE Ok(taskConfigs[task_id].val)

\* durable_helper_state_name: helper_state/{version}/{task_id}/{agg_job_id}
durable_helper_state_name(version, task_id, agg_job_id) == <<version, task_id, agg_job_id>>

HelperStateNames == DapVersion \X TaskIds \X AggJobIds

\* HelperStateStore, DURABLE_HELPER_STATE_PUT
HelperStatePut(store, name, helper_state_hex) ==
    [store EXCEPT ![name] = Some(helper_state_hex)]

\* HelperStateStore, DURABLE_HELPER_STATE_GET: Option<String>
HelperStateGet(store, name) == store[name]

\* put_helper_state
PutHelperState ==
    /\ ret = None
    /\ \E task_id \in TaskIds, agg_job_id \in AggJobIds, helper_state \in HelperStates :
        LET task_config == try_get_task_config(task_id)
            helper_state_hex == hex_encode(get_encoded(helper_state))
            arg == [task_id |-> task_id, agg_job_id |-> agg_job_id,
                    helper_state |-> helper_state]
        IN  IF ~task_config.ok
            THEN /\ ret' = Call("put_helper_state", arg, task_config)
                 /\ UNCHANGED helperState
            ELSE /\ helperState' =
                        HelperStatePut(helperState,
                            durable_helper_state_name(task_config.val.version, task_id,
                                                      agg_job_id),
                            helper_state_hex)
                 /\ ret' = Call("put_helper_state", arg, Ok("unit"))
    /\ UNCHANGED <<aggStore, reportsProcessed, colQueue, now, accepted>>
    /\ UNCHANGED <<mergeRequests, mergeSent, batchQueue, batchRemoved, reportsPending, pendingStore>>
    /\ UNCHANGED <<authVars, taskVars>>

\* A get_helper_state that reads the state of the task's first job, whatever
\* the job asked for.
get_helper_state_FirstJob(task_id, agg_job_id) ==
    LET task_config == try_get_task_config(task_id)
    IN  IF ~task_config.ok THEN task_config
        ELSE LET res == HelperStateGet(helperState,
                            durable_helper_state_name(task_config.val.version, task_id, "j1"))
             IN  IF res = None THEN Ok(None)
                 ELSE LET data == hex_decode(res.val)
                      IN  IF ~data.ok THEN data
                          ELSE LET helper_state == get_decoded(data.val)
                               IN  IF ~helper_state.ok THEN helper_state
                                   ELSE Ok(Some(helper_state.val))

\* get_helper_state: Result<Option<DapHelperState>, DapError>
get_helper_state(task_id, agg_job_id) ==
    LET task_config == try_get_task_config(task_id)
    IN  IF ~task_config.ok THEN task_config
        ELSE LET res == HelperStateGet(helperState,
                            durable_helper_state_name(task_config.val.version, task_id,
                                                      agg_job_id))
             IN  IF res = None THEN Ok(None)
                 ELSE LET data == hex_decode(res.val)
                      IN  IF ~data.ok THEN data
                          ELSE LET helper_state == get_decoded(data.val)
                               IN  IF ~helper_state.ok THEN helper_state
                                   ELSE Ok(Some(helper_state.val))

GetHelperState ==
    /\ ret = None
    /\ \E task_id \in TaskIds, agg_job_id \in AggJobIds :
        ret' = Call("get_helper_state", [task_id |-> task_id, agg_job_id |-> agg_job_id],
                    get_helper_state(task_id, agg_job_id))
    /\ UNCHANGED <<aggStore, reportsProcessed, colQueue, now, accepted>>
    /\ UNCHANGED <<authVars, taskVars, jobVars>>

(***************************************************************************)
(* DapLeader for DaphneWorker: get_reports for a fixed-size task           *)
(***************************************************************************)
\* The most reports pending for the task.
MaxReports == 12

\* DapTaskConfig.min_batch_size of the fixed-size task.
min_batch_size == 5

\* DapQueryConfig::FixedSize { max_batch_size }
max_batch_size == 5

\* BatchCount { batch_id, report_count }
BatchCount(batch_id, report_count) == [batch_id |-> batch_id, report_count |-> report_count]

\* LeaderBatchQueue, DURABLE_LEADER_BATCH_QUEUE_ASSIGN: the reports are assigned
\* to new batches of batch_size reports each; reports that do not fill a batch
\* are not assigned. The answer lists the batches assigned to.
LeaderBatchQueueAssign(queue, batch_size, num_unassigned) ==
    LET formed == num_unassigned \div batch_size
    IN  [queue |-> queue \o [ i \in 1..formed |-> batch_size ],
         batch_assignments |->
            [ i \in 1..formed |-> BatchCount(Len(queue) + i, batch_size) ]]

\* get_reports, dap.rs:833-842: the reports left after each assignment has
\* drained its report_count from the front of the list.
RECURSIVE drain_assignments(_, _, _)
drain_assignments(reports, batch_assignments, i) ==
    IF i > Len(batch_assignments) THEN reports
    ELSE drain_assignments(reports - batch_assignments[i].report_count,
                           batch_assignments, i + 1)

\* get_reports, dap.rs:843-848: reports left over fail the call.
fixed_size_result(reports, batch_assignments) ==
    IF drain_assignments(reports, batch_assignments, 1) # 0
    THEN Err(Fatal("LeaderBatchQueue returned the wrong number of reports"))
    ELSE Ok(batch_assignments)

\* A get_reports that posts min_batch_size - 1 as the size of the batches.
GetReports_BatchSizeOffByOne ==
    /\ ret = None
    /\ \E max_reports \in 1..MaxReports :
        LET num_unassigned == IF reportsPending < max_reports THEN reportsPending
                              ELSE max_reports
            assigned == LeaderBatchQueueAssign(batchQueue, min_batch_size - 1, num_unassigned)
            arg == [max_reports |-> max_reports, num_unassigned |-> num_unassigned]
        IN  /\ reportsPending' = reportsPending - num_unassigned
            /\ IF num_unassigned = 0
               THEN /\ ret' = Call("get_reports", arg, Ok(<<>>))
                    /\ UNCHANGED batchQueue
               ELSE /\ batchQueue' = assigned.queue
                    /\ ret' = Call("get_reports", arg,
                                   fixed_size_result(num_unassigned,
                                                     assigned.batch_assignments))
    /\ UNCHANGED <<aggStore, reportsProcessed, colQueue, now, accepted>>
    /\ UNCHANGED <<mergeRequests, mergeSent, helperState, batchRemoved, pendingStore>>
    /\ UNCHANGED <<authVars, taskVars>>

\* get_reports: at most max_reports reports are drained from ReportsPending;
\* those of the fixed-size task are handed to the batch queue for assignment.
GetReports ==
    /\ ret = None
    /\ \E max_reports \in 1..MaxReports :
        LET num_unassigned == IF reportsPending < max_reports THEN reportsPending
                              ELSE max_reports
            assigned == LeaderBatchQueueAssign(batchQueue, min_batch_size, num_unassigned)
            arg == [max_reports |-> max_reports, num_unassigned |-> num_unassigned]
        IN  /\ reportsPending' = reportsPending - num_unassigned
            /\ IF num_unassigned = 0
               THEN /\ ret' = Call("get_reports", arg, Ok(<<>>))
                    /\ UNCHANGED batchQueue
               ELSE /\ batchQueue' = assigned.queue
                    /\ ret' = Call("get_reports", arg,
                                   fixed_size_result(num_unassigned,
                                                     assigned.batch_assignments))
    /\ UNCHANGED <<aggStore, reportsProcessed, colQueue, now, accepted>>
    /\ UNCHANGED <<mergeRequests, mergeSent, helperState, batchRemoved, pendingStore>>
    /\ UNCHANGED <<authVars, taskVars>>

\* LeaderBatchQueue, DURABLE_LEADER_BATCH_QUEUE_CURRENT: the oldest batch of the
\* queue that has not been removed, if there is one.
LeaderBatchQueueCurrent(queue, removed) ==
    LET queued == { b \in 1..Len(queue) : b \notin removed }
    IN  IF queued = {} THEN Err(Fatal("empty batch queue"))
        ELSE Ok(CHOOSE b \in queued : \A c \in queued : b <= c)

\* DaphneWorker::internal_current_batch: the queue's CURRENT for the task.
internal_current_batch == LeaderBatchQueueCurrent(batchQueue, batchRemoved)

\* current_batch, dap.rs:693-695
CurrentBatch ==
    /\ ret = None
    /\ ret' = Call("current_batch", "task", internal_current_batch)
    /\ UNCHANGED <<aggStore, reportsProcessed, colQueue, now, accepted>>
    /\ UNCHANGED <<authVars, taskVars, jobVars>>

\* CollectionReq of a fixed-size task: Query::FixedSizeByBatchId { batch_id }
FixedSizeQuery(batch_id) == [batch_id |-> batch_id]

\* Collection of a fixed-size batch:
\* part_batch_sel = PartialBatchSelector::FixedSizeByBatchId { batch_id }
FixedSizeCollection(batch_id) ==
    [part_batch_sel |-> "FixedSizeByBatchId", batch_id |-> batch_id,
     report_count |-> min_batch_size]

\* LeaderBatchQueue, DURABLE_LEADER_BATCH_QUEUE_REMOVE
LeaderBatchQueueRemove(removed, batch_id) == removed \cup {batch_id}

\* init_collect_job for a batch of the fixed-size task.
InitCollectJobByBatchId ==
    /\ ret = None
    /\ \E collect_id \in CollectIds, batch_id \in 1..Len(batchQueue) :
        /\ colQueue' = ColJobQueuePut(colQueue, collect_id, FixedSizeQuery(batch_id))
        /\ ret' = Call("init_collect_job", FixedSizeQuery(batch_id), Ok(collect_id))
    /\ UNCHANGED <<aggStore, reportsProcessed, now, accepted>>
    /\ UNCHANGED <<authVars, taskVars, jobVars>>

\* A finish_collect_job that does not post the removal.
FinishCollectJobRemove_NoRemoval ==
    /\ ret = None
    /\ \E collect_id \in CollectIds, batch_id \in 1..Len(batchQueue) :
        ret' = Call("finish_collect_job_remove",
                    [collect_id |-> collect_id,
                     collect_resp |-> FixedSizeCollection(batch_id)],
                    Ok("removed"))
    /\ UNCHANGED <<aggStore, reportsProcessed, colQueue, now, accepted>>
    /\ UNCHANGED <<authVars, taskVars, jobVars>>

\* finish_collect_job for a fixed-size collection, dap.rs:946-960: the batch is
\* removed from the batch queue; the call then goes on to the collection job
\* queue, unless it ends here with an error.
FinishCollectJobRemove ==
    /\ ret = None
    /\ \E collect_id \in CollectIds, batch_id \in 1..Len(batchQueue) :
        /\ batchRemoved' = LeaderBatchQueueRemove(batchRemoved, batch_id)
        /\ ret' = Call("finish_collect_job_remove",
                       [collect_id |-> collect_id,
                        collect_resp |-> FixedSizeCollection(batch_id)],
                       Ok("removed"))
    /\ UNCHANGED <<aggStore, reportsProcessed, colQueue, now, accepted>>
    /\ UNCHANGED <<mergeRequests, mergeSent, helperState, batchQueue, reportsPending, pendingStore>>
    /\ UNCHANGED <<authVars, taskVars>>

\* finish_collect_job for a fixed-size collection, dap.rs:962-971: the queue's
\* FINISH, after the removal.
FinishCollectJobFinish ==
    /\ ret # None
    /\ ret.val.op = "finish_collect_job_remove"
    /\ colQueue' = ColJobQueueFinish(colQueue, ret.val.arg.collect_id,
                                     ret.val.arg.collect_resp)
    /\ ret' = Call("finish_collect_job", ret.val.arg, Ok("unit"))
    /\ UNCHANGED <<aggStore, reportsProcessed, now, accepted>>
    /\ UNCHANGED <<authVars, taskVars, jobVars>>

(***************************************************************************)
(* DapLeader for DaphneWorker: put_report                                  *)
(***************************************************************************)
\* ReportsPending, DURABLE_REPORTS_PENDING_PUT: ReportsPendingResult. A report
\* whose id the instance holds is refused; any other report is stored.
ReportsPendingPut(stored, report) ==
    IF \E r \in stored : r.id = report.id
    THEN [result |-> "ErrReportExists", stored |-> stored]
    ELSE [result |-> "Ok", stored |-> stored \cup {report}]

\* put_report, dap.rs:709-748: the report is put into the ReportsPending
\* instance named after its metadata; ErrReportExists is turned into
\* ReportReplayed.
PutReport ==
    /\ ret = None
    /\ \E report \in ReportMetadatas :
        LET name == durable_name_report_store(report)
            res == ReportsPendingPut(pendingStore[name], report)
        IN  /\ pendingStore' = [pendingStore EXCEPT ![name] = res.stored]
            /\ ret' = Call("put_report", report,
                           IF res.result = "Ok" THEN Ok("unit")
                           ELSE Err("ReportReplayed"))
    /\ UNCHANGED <<aggStore, reportsProcessed, colQueue, now, accepted>>
    /\ UNCHANGED <<mergeRequests, mergeSent, helperState, batchQueue, batchRemoved,
                   reportsPending>>
    /\ UNCHANGED <<authVars, taskVars>>

(***************************************************************************)
(* Specifications                                                          *)
(***************************************************************************)
\* Fresh durable storage: no bucket merged into or collected, nothing processed,
\* no collection job.
InitDurable ==
    /\ aggStore = [ w \in Windows |-> [agg_share |-> EmptyShare, collected |-> FALSE] ]
    /\ reportsProcessed = [ e \in { t \in Times : t % report_storage_epoch_duration = 0 } |-> {} ]
    /\ colQueue = [ c \in CollectIds |-> [state |-> "Unknown"] ]
    /\ now = 0
    /\ accepted = [ r \in ReportIds |-> 0 ]
    /\ ret = None
    /\ mergeRequests = {}
    /\ mergeSent = [ w \in Windows |-> EmptyShare ]
    /\ helperState = [ n \in HelperStateNames |-> None ]
    /\ batchQueue = <<>>
    /\ batchRemoved = {}
    /\ pendingStore = [ e \in { t \in Times : t % report_storage_epoch_duration = 0 } |-> {} ]
    /\ reportsPending = 0

\* No task configuration stored and no resolution under way.
InitNoTasks ==
    /\ taskConfigs = [ t \in TaskIds |-> None ]
    /\ resolving = [ p \in Procs |-> IdleCall ]

\* A deployment without taskprov and without provisioned tokens.
InitNoAuth ==
    /\ leaderTokens = [ t \in TaskIds |-> None ]
    /\ collectorTokens = [ t \in TaskIds |-> None ]
    /\ taskprov = None
    /\ allowTaskprov = FALSE
    /\ authReq = None
    /\ authRes = None

\* The service is deployed with some configuration and some provisioned tokens.
InitAuth ==
    /\ leaderTokens \in [TaskIds -> {None} \cup { Some(t) : t \in StoredTokens }]
    /\ collectorTokens \in [TaskIds -> {None} \cup { Some(t) : t \in StoredTokens }]
    /\ taskprov \in {None} \cup { Some(c) : c \in TaskprovConfigs }
    /\ allowTaskprov \in BOOLEAN
    /\ authReq = None
    /\ authRes = None
    /\ InitDurable
    /\ InitNoTasks

\* A request arrives and is checked; the check reads the configuration and the
\* token stores and writes nothing.
Check ==
    /\ authReq = None
    /\ ret = None
    /\ \E version \in DapVersion, content_type \in ContentTypes,
          task_id \in {None} \cup { Some(t) : t \in TaskIds }, auth \in SenderAuths :
        LET req == DapRequest(version, content_type, task_id, auth)
        IN  /\ authReq' = Some(req)
            /\ authRes' = Some(unauthorized_reason(req))
            /\ UNCHANGED <<leaderTokens, collectorTokens, taskprov, allowTaskprov>>
            /\ UNCHANGED <<durableVars, taskVars, jobVars>>

\* The request's execution context ends with its response.
Respond ==
    /\ authReq # None
    /\ authReq' = None
    /\ authRes' = None
    /\ UNCHANGED <<leaderTokens, collectorTokens, taskprov, allowTaskprov>>
    /\ UNCHANGED <<durableVars, taskVars, jobVars>>

NextAuth == Check \/ Respond \/ Authorize \/ Return

SpecAuth == InitAuth /\ [][NextAuth]_vars

\* The aggregate store of one task under merges, collection and queries.
InitStore == InitNoAuth /\ InitDurable /\ InitNoTasks

NextStore ==
    \/ PutOutShares \/ MarkCollected \/ MarkCollectedAgain \/ IsBatchOverlapping
    \/ GetAggShare \/ Return

SpecStore == InitStore /\ [][NextStore]_vars

\* The Leader's collection flow over the task's buckets.
InitCollect == InitNoAuth /\ InitDurable /\ InitNoTasks

NextCollect ==
    \/ InitCollectJob
    \/ PollCollectJob
    \/ GetPendingCollectJobs
    \/ FinishCollectJob
    \/ MarkCollected
    \/ Return

SpecCollect == InitCollect /\ [][NextCollect]_vars

\* Headers rendered and parsed under either version.
InitCodec == InitNoAuth /\ InitDurable /\ InitNoTasks

NextCodec == FromStrForVersion \/ AsStrForVersion \/ RenderThenParse \/ Sender \/ Return

SpecCodec == InitCodec /\ [][NextCodec]_vars

\* Some tasks are configured out of band, each with its leader token; taskprov
\* may be configured, with or without the feature flag.
InitTaskprov ==
    /\ taskConfigs \in [TaskIds -> {None, Some(StaticTaskConfig)}]
    /\ leaderTokens = [ t \in TaskIds |->
                          IF taskConfigs[t] = None THEN None ELSE Some(TokenA) ]
    /\ collectorTokens = [ t \in TaskIds |-> None ]
    /\ taskprov \in {None} \cup { Some(c) : c \in { x \in TaskprovConfigs :
                                                      x.collector_auth = None } }
    /\ allowTaskprov \in BOOLEAN
    /\ resolving = [ p \in Procs |-> IdleCall ]
    /\ authReq = None
    /\ authRes = None
    /\ InitDurable

\* Request contexts resolving tasks, each with its own arguments.
NextTaskprov ==
    \E p \in Procs :
        \/ ResolveLookup(p)
        \/ ResolveSetLeaderBearerToken(p)
        \/ ResolveSetTaskConfig(p)
        \/ ResolveGetTaskConfig(p)
        \/ ResolveReturn(p)

SpecTaskprov == InitTaskprov /\ [][NextTaskprov]_vars

\* Request contexts resolving tasks, any of whose KV operations may fail.
NextTaskprovFail ==
    \E p \in Procs :
        \/ ResolveLookup(p)
        \/ ResolveSetLeaderBearerToken(p)
        \/ ResolveSetTaskConfig(p)
        \/ ResolveGetTaskConfig(p)
        \/ ResolveFails(p)
        \/ ResolveReturn(p)

SpecTaskprovFail == InitTaskprov /\ [][NextTaskprovFail]_vars

\* Two request contexts resolving with the same arguments, one after the other
\* or at the same time.
NextResolvePair ==
    \E p \in Procs :
        \/ ResolveLookupSame(p)
        \/ ResolveSetLeaderBearerToken(p)
        \/ ResolveSetTaskConfig(p)
        \/ ResolveGetTaskConfig(p)
        \/ ResolveReturn(p)

SpecResolvePair == InitTaskprov /\ [][NextResolvePair]_vars

\* Aggregation jobs checking their reports while time passes.
InitReplay == InitNoAuth /\ InitDurable /\ InitNoTasks

NextReplay == CheckEarlyReject \/ Tick \/ Return

SpecReplay == InitReplay /\ [][NextReplay]_vars

\* Merge requests of several put_out_shares calls reaching the buckets' actors
\* in any order.
InitMerge == InitNoAuth /\ InitDurable /\ InitNoTasks

NextMerge == PutOutSharesSend \/ AggregateStoreServeMerge

SpecMerge == InitMerge /\ [][NextMerge]_vars

\* Aggregation jobs of pending reports checked while buckets get collected.
InitReject == InitNoAuth /\ InitDurable /\ InitNoTasks

NextReject == CheckPendingReports \/ MarkCollected \/ Return

SpecReject == InitReject /\ [][NextReject]_vars

\* The Helper's state store, with any set of configured tasks.
InitHelper ==
    /\ InitNoAuth
    /\ InitDurable
    /\ taskConfigs \in [TaskIds -> {None, Some(StaticTaskConfig)}]
    /\ resolving = [ p \in Procs |-> IdleCall ]

NextHelper == PutHelperState \/ GetHelperState \/ Return

SpecHelper == InitHelper /\ [][NextHelper]_vars

\* The Leader's batch queue of a fixed-size task, with any number of reports
\* pending.
InitBatch ==
    /\ InitNoAuth
    /\ InitNoTasks
    /\ aggStore = [ w \in Windows |-> [agg_share |-> EmptyShare, collected |-> FALSE] ]
    /\ reportsProcessed = [ e \in { t \in Times : t % report_storage_epoch_duration = 0 } |-> {} ]
    /\ colQueue = [ c \in CollectIds |-> [state |-> "Unknown"] ]
    /\ now = 0
    /\ accepted = [ r \in ReportIds |-> 0 ]
    /\ ret = None
    /\ mergeRequests = {}
    /\ mergeSent = [ w \in Windows |-> EmptyShare ]
    /\ helperState = [ n \in HelperStateNames |-> None ]
    /\ batchQueue = <<>>
    /\ batchRemoved = {}
    /\ pendingStore = [ e \in { t \in Times : t % report_storage_epoch_duration = 0 } |-> {} ]
    /\ reportsPending \in 0..MaxReports

NextBatch == GetReports \/ CurrentBatch \/ Return

SpecBatch == InitBatch /\ [][NextBatch]_vars

\* Collections of the fixed-size task's batches next to time-interval ones,
\* with the reports of two batches pending.
InitFinish ==
    /\ InitNoAuth
    /\ InitNoTasks
    /\ aggStore = [ w \in Windows |-> [agg_share |-> EmptyShare, collected |-> FALSE] ]
    /\ reportsProcessed = [ e \in { t \in Times : t % report_storage_epoch_duration = 0 } |-> {} ]
    /\ colQueue = [ c \in CollectIds |-> [state |-> "Unknown"] ]
    /\ now = 0
    /\ accepted = [ r \in ReportIds |-> 0 ]
    /\ ret = None
    /\ mergeRequests = {}
    /\ mergeSent = [ w \in Windows |-> EmptyShare ]
    /\ helperState = [ n \in HelperStateNames |-> None ]
    /\ batchQueue = <<>>
    /\ batchRemoved = {}
    /\ pendingStore = [ e \in { t \in Times : t % report_storage_epoch_duration = 0 } |-> {} ]
    /\ reportsPending = 2 * min_batch_size

NextFinish ==
    \/ GetReports
    \/ CurrentBatch
    \/ InitCollectJob
    \/ InitCollectJobByBatchId
    \/ FinishCollectJob
    \/ FinishCollectJobRemove
    \/ FinishCollectJobFinish
    \/ Return

SpecFinish == InitFinish /\ [][NextFinish]_vars

\* Aggregation jobs checked once or twice while batches are collected.
InitRecheck == InitNoAuth /\ InitDurable /\ InitNoTasks

NextRecheck ==
    \/ CheckPendingReports
    \/ CheckEarlyRejectAgain
    \/ MarkCollected
    \/ Return

SpecRecheck == InitRecheck /\ [][NextRecheck]_vars

\* Clients upload reports to the Leader.
InitUpload == InitNoAuth /\ InitDurable /\ InitNoTasks

NextUpload == PutReport \/ Return

SpecUpload == InitUpload /\ [][NextUpload]_vars

\* An aggregation job initialization processed by the Helper, possibly twice.
InitResend == InitNoAuth /\ InitDurable /\ InitNoTasks

NextResend == CheckPendingReports \/ CheckEarlyRejectAgain \/ Return

SpecResend == InitResend /\ [][NextResend]_vars

\* Aggregation jobs of pending reports checked while time passes.
InitWindow == InitNoAuth /\ InitDurable /\ InitNoTasks

NextWindow == CheckPendingReports \/ Tick \/ Return

SpecWindow == InitWindow /\ [][NextWindow]_vars

(***************************************************************************)
(* Report lifecycle properties                                             *)
(***************************************************************************)
RetIs(op) == ret # None /\ ret.val.op = op

RetArg == ret.val.arg

RetVal == ret.val.val

\* C1: for every report id, at most one check_early_reject call of the task
\* returns no failure for it, whatever the interleaving of the calls and the
\* timestamps of the reports.
C1_AtMostOneAcceptance == \A r \in ReportIds : accepted[r] <= 1

\* C2: once a bucket is collected, every put_out_shares that merges into it
\* fails with BatchCollected, and the bucket's stored share, which is what
\* get_agg_share returns for it, never changes again.
C2_CollectedBucketFrozen ==
    /\ []( (RetIs("put_out_shares")
              /\ \E i \in 1..Len(RetArg) :
                    aggStore[quantized_time_lower_bound(RetArg[i].time)].collected)
           => RetVal = Err("BatchCollected") )
    /\ []( (RetIs("get_agg_share") /\ RetArg.duration = time_precision)
           => RetVal = Ok(aggStore[RetArg.start].agg_share) )
    /\ [][ \A w \in Windows :
             aggStore[w].collected => aggStore'[w] = aggStore[w] ]_vars

\* A merge refused by a collected bucket that holds a share, in a call that also
\* spans a bucket that is not collected.
C2_Witness ==
    /\ RetIs("put_out_shares")
    /\ RetVal = Err("BatchCollected")
    /\ \E i, j \in 1..Len(RetArg) :
        /\ aggStore[quantized_time_lower_bound(RetArg[i].time)].collected
        /\ aggStore[quantized_time_lower_bound(RetArg[i].time)].agg_share.report_count > 0
        /\ ~aggStore[quantized_time_lower_bound(RetArg[j].time)].collected

\* C3: is_batch_overlapping returns true iff some bucket of the selector's span
\* is collected; buckets never merged into count as not collected.
C3_OverlapIffCollectedInSpan ==
    RetIs("is_batch_overlapping")
    => (RetVal = Ok(TRUE)
            <=> \E w \in Windows :
                    /\ RetArg.start <= w
                    /\ w < RetArg.start + RetArg.duration
                    /\ aggStore[w].collected)

\* An overlap found in the last bucket of a span whose first bucket was never
\* merged into or collected.
C3_Witness ==
    /\ RetIs("is_batch_overlapping")
    /\ RetVal = Ok(TRUE)
    /\ RetArg.duration > time_precision
    /\ aggStore[RetArg.start] = [agg_share |-> EmptyShare, collected |-> FALSE]
    /\ aggStore[RetArg.start + RetArg.duration - time_precision].collected

\* C4: init_collect_job for a request whose span contains a collected bucket
\* fails with BatchOverlap and enqueues no collection job.
C4_OverlappingCollectRejected ==
    [][ (ret = None /\ ret' # None /\ ret'.val.op = "init_collect_job"
            /\ \E w \in Windows :
                /\ ret'.val.arg.start <= w
                /\ w < ret'.val.arg.start + ret'.val.arg.duration
                /\ aggStore[w].collected)
        => (ret'.val.val = Err("BatchOverlap") /\ colQueue' = colQueue) ]_vars

(***************************************************************************)
(* Authorization properties                                                *)
(***************************************************************************)
\* The request under check, its credential and the check's outcome.
Checked == authReq # None

CheckAuthorized == authRes.val.result = OkNone

CheckDenied == authRes.val.result.outcome = "Ok" /\ authRes.val.result.reason # None

HasBearerToken == authReq.val.sender_auth # None /\ authReq.val.sender_auth.val.type = "BearerToken"

HasClientCert == authReq.val.sender_auth # None /\ authReq.val.sender_auth.val.type = "CfTlsClientAuth"

LeaderKinds ==
    {"AggregationJobInitReq", "AggregationJobContinueReq", "AggregateShareReq",
     "Collection", "HpkeConfigList"}

\* C5: a Leader-kind request with a task id and a bearer token is authorized iff
\* the token equals the task's configured leader token (the taskprov token is
\* then not consulted) or, when the task has none, iff taskprov is allowed and
\* configured and the token equals the taskprov leader token; otherwise the
\* check returns a deny reason.
C5_LeaderBearerToken ==
    (Checked /\ HasBearerToken /\ authReq.val.task_id # None
        /\ authReq.val.media_type.kind \in LeaderKinds)
    => LET got == authReq.val.sender_auth.val.token
           stored == leaderTokens[authReq.val.task_id.val]
       IN  /\ stored # None =>
                /\ CheckAuthorized <=> got = stored.val
                /\ "taskprov_leader" \notin authRes.val.consulted
           /\ stored = None =>
                (CheckAuthorized <=>
                    /\ allowTaskprov
                    /\ taskprov # None
                    /\ taskprov.val.leader_auth = BearerTokenMethod(got))
           /\ ~CheckAuthorized => CheckDenied

\* A Leader request for a task without a token, authorized by the taskprov token.
C5_Witness ==
    /\ Checked /\ HasBearerToken /\ authReq.val.task_id # None
    /\ authReq.val.media_type.kind \in LeaderKinds
    /\ leaderTokens[authReq.val.task_id.val] = None
    /\ \E t \in TaskIds : leaderTokens[t] # None
    /\ CheckAuthorized

\* C6: a CollectReq request with a task id and a bearer token is authorized iff
\* the token equals the task's collector token or, when the task has none, iff
\* taskprov is allowed and the token equals the taskprov collector token; in
\* every other case, also with no taskprov collector method configured, the
\* check completes with a deny reason.
C6_CollectorBearerToken ==
    (Checked /\ HasBearerToken /\ authReq.val.task_id # None
        /\ authReq.val.media_type.kind = "CollectReq")
    => LET got == authReq.val.sender_auth.val.token
           stored == collectorTokens[authReq.val.task_id.val]
       IN  /\ stored # None => (CheckAuthorized <=> got = stored.val)
           /\ stored = None =>
                (CheckAuthorized <=>
                    /\ allowTaskprov
                    /\ taskprov # None
                    /\ taskprov.val.collector_auth = Some(BearerTokenMethod(got)))
           /\ ~CheckAuthorized => CheckDenied

\* C7: a request without a task id is denied, whatever its media kind and
\* credential, and no token store is consulted.
C7_MissingTaskIdDenied ==
    (Checked /\ authReq.val.task_id = None)
    => (CheckDenied /\ authRes.val.consulted = {})

\* C8 as claimed: a Report request (sender: Client) draws no deny reason.
C8_ClientPasses ==
    (Checked /\ authReq.val.media_type.kind = "Report") => CheckAuthorized

\* C8 as amended: the check denies every Report request, with or without
\* credentials; uploads pass only because the check is not applied to them.
C8_ClientDeniedByCheck ==
    (Checked /\ authReq.val.media_type.kind = "Report") => CheckDenied

\* A Report request carrying the very token that would authorize a Leader.
C8_Witness ==
    /\ Checked /\ HasBearerToken
    /\ authReq.val.media_type.kind = "Report"
    /\ authReq.val.task_id # None
    /\ leaderTokens[authReq.val.task_id.val] = Some(authReq.val.sender_auth.val.token)
    /\ CheckDenied

\* C9: a request whose content type is absent or not in the string table of its
\* own version is denied for every credential, and the check writes nothing
\* durable.
C9_UnknownMediaTypeDenied ==
    /\ [](
         (Checked /\ (authReq.val.content_type = None
                        \/ authReq.val.content_type.val \notin StringTable(authReq.val.version)))
         => CheckDenied)
    /\ [][ (authReq = None /\ authReq' # None)
           => UNCHANGED <<leaderTokens, collectorTokens, aggStore, reportsProcessed,
                          colQueue, taskConfigs, helperState, batchQueue,
                          batchRemoved, reportsPending, pendingStore>> ]_vars

\* A draft04 request with the draft02 AggJobInitReq content type and a token
\* that is the task's leader token.
C9_Witness ==
    /\ Checked /\ HasBearerToken
    /\ authReq.val.version = "Draft04"
    /\ authReq.val.content_type = Some(DRAFT02_MEDIA_TYPE_AGG_INIT_REQ)
    /\ authReq.val.task_id # None
    /\ leaderTokens[authReq.val.task_id.val] = Some(authReq.val.sender_auth.val.token)
    /\ CheckDenied

\* C10: a request with a TLS client-certificate identity is authorized iff a
\* taskprov configuration exists, the sender is the Leader or the Collector,
\* that role's configured method is TLS client auth, the issuer is the required
\* one and the subject is acceptable; otherwise it is denied.
C10_TlsClientAuth ==
    (Checked /\ HasClientCert)
    => LET cert == authReq.val.sender_auth.val
           kind == authReq.val.media_type.kind
           Accepts(method) ==
                /\ method.type = "CfTlsClientAuth"
                /\ cert.cert_issuer = method.valid_cert_issuer
                /\ cert.cert_subject \in method.valid_cert_subjects
       IN  /\ CheckAuthorized <=>
                /\ taskprov # None
                /\ \/ kind \in LeaderKinds /\ Accepts(taskprov.val.leader_auth)
                   \/ /\ kind = "CollectReq"
                      /\ taskprov.val.collector_auth # None
                      /\ Accepts(taskprov.val.collector_auth.val)
           /\ ~CheckAuthorized => CheckDenied

\* A Collector authorized by its certificate while the Leader's method is a
\* bearer token.
C10_Witness ==
    /\ Checked /\ HasClientCert
    /\ authReq.val.media_type.kind = "CollectReq"
    /\ taskprov # None
    /\ taskprov.val.leader_auth.type = "BearerToken"
    /\ CheckAuthorized


(***************************************************************************)
(* Media-type codec properties                                             *)
(***************************************************************************)
\* The unit variants that a version defines: every known kind except the
\* draft02 continue response outside draft02.
DefinedIn(version, k) ==
    k \in KnownKinds /\ ~(k = "Draft02AggregateContinueResp" /\ version # "Draft02")

\* C12: for each version and every kind defined in it, parsing under that
\* version the content type rendered under that version yields the kind again.
C12_ParseOfRenderIsIdentity ==
    (RetIs("render_then_parse") /\ DefinedIn(RetArg.version, RetArg.media.kind))
    => RetVal = RetArg.media

\* The draft02 continue response makes the round trip under draft02.
C12_Witness ==
    /\ RetIs("render_then_parse")
    /\ RetArg.version = "Draft02"
    /\ RetArg.media = Kind("Draft02AggregateContinueResp")
    /\ RetVal = Kind("Draft02AggregateContinueResp")

\* C13: render gives None iff the kind is Missing or is not defined in the
\* version; every other kind, Invalid(raw) included, renders to a string.
C13_RenderNoneIffUndefined ==
    RetIs("as_str_for_version")
    => /\ RetVal = None <=>
            \/ RetArg.media = Missing
            \/ /\ RetArg.media.kind \in KnownKinds
               /\ ~DefinedIn(RetArg.version, RetArg.media.kind)
       /\ RetArg.media.kind = "Invalid" => RetVal = Some(RetArg.media.raw)

\* The draft02 continue response has no rendering under draft04.
C13_Witness ==
    /\ RetIs("as_str_for_version")
    /\ RetArg.version = "Draft04"
    /\ RetArg.media = Kind("Draft02AggregateContinueResp")
    /\ RetVal = None

\* C14: parse gives Invalid(s) for every string s outside the version's own
\* table, Missing iff the header is absent, and a known kind only for a string
\* of the version's own table.
C14_ParseIsVersionPure ==
    RetIs("from_str_for_version")
    => LET version == RetArg.version
           content_type == RetArg.content_type
       IN  /\ RetVal = Missing <=> content_type = None
           /\ (content_type # None /\ content_type.val \notin StringTable(version))
                => RetVal = Invalid(content_type.val)
           /\ RetVal.kind \in KnownKinds
                => /\ content_type # None
                   /\ content_type.val \in StringTable(version)

\* A string of the draft04 table only, parsed under draft02.
C14_Witness ==
    /\ RetIs("from_str_for_version")
    /\ RetArg.version = "Draft02"
    /\ RetArg.content_type = Some(MEDIA_TYPE_AGG_JOB_INIT_REQ)
    /\ RetVal = Invalid(MEDIA_TYPE_AGG_JOB_INIT_REQ)

\* C15: the sender is the Leader exactly for AggregationJobInitReq,
\* AggregationJobContinueReq, AggregateShareReq, Collection and HpkeConfigList,
\* the Helper exactly for AggregationJobResp, the draft02 continue response and
\* AggregateShare, the Client exactly for Report, the Collector exactly for
\* CollectReq, and undetermined for Invalid and Missing.
C15_SenderTable ==
    RetIs("sender")
    => LET k == RetArg.kind
       IN  /\ RetVal = Some("Leader") <=> k \in LeaderKinds
           /\ RetVal = Some("Helper") <=>
                k \in {"AggregationJobResp", "Draft02AggregateContinueResp", "AggregateShare"}
           /\ RetVal = Some("Client") <=> k = "Report"
           /\ RetVal = Some("Collector") <=> k = "CollectReq"
           /\ RetVal = None <=> k \in {"Invalid", "Missing"}

\* The sender of an Invalid media type that carries a known content type.
C15_Witness ==
    /\ RetIs("sender")
    /\ RetArg = Invalid(MEDIA_TYPE_REPORT)
    /\ RetVal = None


(***************************************************************************)
(* Authorize and check                                                     *)
(***************************************************************************)
\* C11: authorize succeeds exactly for a task with a leader token and a
\* Leader media type, and the request then sent with its token draws no deny
\* reason from the check; in every other case authorize fails with a Fatal
\* error.
C11_AuthorizedRequestPasses ==
    RetIs("authorize")
    => /\ RetVal.ok <=>
            /\ leaderTokens[RetArg.task_id] # None
            /\ RetArg.media_type.kind \in LeaderKinds
       /\ ~RetVal.ok => RetVal = Err("Fatal")
       /\ (RetVal.ok /\ Checked)
            => /\ authReq.val.task_id = Some(RetArg.task_id)
               /\ authReq.val.media_type = RetArg.media_type
               /\ authReq.val.sender_auth = Some(RetVal.val)
               /\ CheckAuthorized

\* A draft02 HpkeConfigList request authorized with the task's own token while
\* the taskprov leader method holds another token.
C11_Witness ==
    /\ RetIs("authorize") /\ RetVal.ok /\ Checked /\ CheckAuthorized
    /\ RetArg.version = "Draft02"
    /\ RetArg.media_type = Kind("HpkeConfigList")
    /\ allowTaskprov /\ taskprov # None
    /\ taskprov.val.leader_auth.type = "BearerToken"
    /\ taskprov.val.leader_auth.token # RetVal.val.token


(***************************************************************************)
(* Task resolution properties                                              *)
(***************************************************************************)
\* The resolution of request context p has returned.
Resolved(p) == resolving[p].pc = "done"

\* The metadata of p's resolution carries a taskprov extension.
HasTaskprovExtension(p) ==
    /\ resolving[p].metadata # None
    /\ Len(resolving[p].metadata.val.extensions) > 0

\* The taskprov extension of p's resolution derives to the task id resolved.
WellFormed(p) ==
    /\ HasTaskprovExtension(p)
    /\ compute_task_id(resolving[p].metadata.val.extensions[1].payload) = resolving[p].task_id

\* p's resolution failed with InvalidTask.
RejectedInvalidTask(p) ==
    /\ ~resolving[p].result.ok
    /\ resolving[p].result.val.error = "InvalidTask"

\* Request context p starts a resolution in this step.
Starts(p) == resolving[p].pc = "idle" /\ resolving'[p].pc # "idle"

\* C16: with the taskprov feature flag off, resolving an unknown task id with
\* metadata that carries a taskprov extension fails with InvalidTask at once and
\* writes neither a task config nor a bearer token.
C16_DisabledTaskprovRejected ==
    [][ \A p \in Procs :
          (Starts(p) /\ ~allowTaskprov
              /\ taskConfigs[resolving'[p].task_id] = None
              /\ resolving'[p].metadata # None
              /\ Len(resolving'[p].metadata.val.extensions) > 0)
          => /\ resolving'[p].pc = "done"
             /\ ~resolving'[p].result.ok
             /\ resolving'[p].result.val.error = "InvalidTask"
             /\ UNCHANGED <<taskConfigs, leaderTokens, collectorTokens>> ]_vars

\* A well-formed extension refused because the flag is off, with taskprov
\* configured.
C16_Witness ==
    \E p \in Procs :
        /\ Resolved(p) /\ WellFormed(p) /\ RejectedInvalidTask(p)
        /\ ~allowTaskprov /\ taskprov # None
        /\ resolving[p].result.val.detail = "Taskprov extension is disabled."
        /\ taskConfigs[resolving[p].task_id] = None
        /\ leaderTokens[resolving[p].task_id] = None

\* p's resolution returned a task configuration that came from taskprov.
ReturnedTaskprovTask(p) ==
    /\ Resolved(p)
    /\ resolving[p].result.ok
    /\ resolving[p].result.val # None
    /\ resolving[p].result.val.val.taskprov # None

\* A resolution of task_id starting now would return task_config (the first
\* lookup returns what is stored).
LaterResolutionsReturn(task_id, task_config) == taskConfigs[task_id] = Some(task_config)

\* A Leader request for task_id that carries token is authorized under each
\* version.
LeaderRequestsAuthorized(task_id, token) ==
    \A version \in DapVersion, k \in LeaderKinds :
        unauthorized_reason(
            DapRequest(version, as_str_for_version(Kind(k), version), Some(task_id),
                       Some(BearerTokenAuth(token)))).result = OkNone

\* C17: once a resolution has returned a task materialized by taskprov, every
\* later resolution of the task id returns that same task configuration, and
\* under bearer-token auth the task's leader token is the taskprov leader token,
\* so a Leader request for the task with that token is authorized.
C17_MaterializedTaskIsStable ==
    \A p \in Procs :
        ReturnedTaskprovTask(p)
        => /\ LaterResolutionsReturn(resolving[p].task_id, resolving[p].result.val.val)
           /\ taskprov.val.leader_auth.type = "BearerToken"
                => /\ get_leader_bearer_token_for(resolving[p].task_id)
                        = Some(taskprov.val.leader_auth.token)
                   /\ LeaderRequestsAuthorized(resolving[p].task_id,
                                               taskprov.val.leader_auth.token)

\* C18: a resolution whose metadata carries a taskprov payload that does not
\* derive to the task id ends with InvalidTask, for an unknown task id and for
\* one already materialized alike.
C18_TamperedPayloadRejected ==
    \A p \in Procs :
        (Resolved(p) /\ HasTaskprovExtension(p) /\ ~WellFormed(p))
        => RejectedInvalidTask(p)

\* The two resolutions have returned and had the same arguments.
SameArguments(p, q) ==
    /\ Resolved(p) /\ Resolved(q)
    /\ resolving[p].version = resolving[q].version
    /\ resolving[p].task_id = resolving[q].task_id
    /\ resolving[p].metadata = resolving[q].metadata

\* C19: two resolutions with the same version, task id and metadata, run one
\* after the other or at the same time, return the same result.
C19_SameArgumentsSameResult ==
    \A p, q \in Procs :
        SameArguments(p, q) => resolving[p].result = resolving[q].result

\* Two resolutions of an unknown task with a well-formed extension have both
\* returned the materialized task.
C19_Witness ==
    /\ SameArguments(1, 2)
    /\ WellFormed(1)
    /\ ReturnedTaskprovTask(1)
    /\ ReturnedTaskprovTask(2)

\* C20: a resolution of a task id that is stored returns the stored task
\* configuration at its first lookup and writes nothing, whatever the metadata
\* and the taskprov feature flag.
C20_StoredTaskReturnedWithoutWrite ==
    [][ \A p \in Procs :
          (Starts(p) /\ taskConfigs[resolving'[p].task_id] # None)
          => /\ resolving'[p].pc = "done"
             /\ resolving'[p].result = Ok(taskConfigs[resolving'[p].task_id])
             /\ UNCHANGED <<taskConfigs, leaderTokens, collectorTokens>> ]_vars

\* A task configured out of band is returned to a resolution that carries a
\* well-formed taskprov extension for it, with taskprov allowed and configured.
C20_Witness ==
    \E p \in Procs :
        /\ Resolved(p) /\ WellFormed(p)
        /\ allowTaskprov /\ taskprov # None
        /\ resolving[p].result = Ok(Some(StaticTaskConfig))
        /\ taskConfigs[resolving[p].task_id] = Some(StaticTaskConfig)

\* C21: resolving a task id that is not stored, with no metadata or with
\* metadata that carries no taskprov extension, returns not-found (Ok(None), not
\* an error) at once and writes neither a task config nor a bearer token.
C21_UnknownTaskWithoutTaskprovNotFound ==
    [][ \A p \in Procs :
          (Starts(p) /\ taskConfigs[resolving'[p].task_id] = None
              /\ (resolving'[p].metadata = None
                    \/ Len(resolving'[p].metadata.val.extensions) = 0))
          => /\ resolving'[p].pc = "done"
             /\ resolving'[p].result = Ok(None)
             /\ UNCHANGED <<taskConfigs, leaderTokens, collectorTokens>> ]_vars

\* Metadata without a taskprov extension for an unknown task, with taskprov
\* allowed and configured: not found, and still nothing stored for the task.
C21_Witness ==
    \E p \in Procs :
        /\ Resolved(p)
        /\ resolving[p].metadata = Some([extensions |-> <<>>])
        /\ resolving[p].result = Ok(None)
        /\ allowTaskprov /\ taskprov # None
        /\ taskConfigs[resolving[p].task_id] = None
        /\ leaderTokens[resolving[p].task_id] = None


(***************************************************************************)
(* Aggregate store properties                                              *)
(***************************************************************************)
\* No merge request for bucket w is on its way.
Quiet(w) == \A r \in mergeRequests : r.bucket # w

\* C22: for every bucket, once the merges sent to it have all been served, the
\* stored share is the merge of their deltas in sending order, in whatever order
\* and interleaving the bucket's actor served them.
C22_MergeOrderInvariant ==
    \A w \in Windows : Quiet(w) => aggStore[w].agg_share = mergeSent[w]

\* A bucket that has served the requests of two calls, the second of which
\* still has a request on its way to another bucket.
C22_Witness ==
    \E w \in Windows :
        /\ Quiet(w)
        /\ aggStore[w].agg_share.report_count = 2
        /\ aggStore[w].agg_share.checksum = 3
        /\ \E r \in mergeRequests : r.call = 1 /\ r.bucket # w

\* The buckets a selector covers: the windows inside its interval.
SpanOf(batch_sel) ==
    { w \in Windows : batch_sel.start <= w /\ w < batch_sel.start + batch_sel.duration }

\* The orders in which the buckets of a set may respond.
ResponseOrders(S) ==
    { f \in [1..Cardinality(S) -> S] : \A i, j \in 1..Cardinality(S) : f[i] = f[j] => i = j }

\* The stored shares of the buckets merged one by one in the order f, up to
\* position n.
RECURSIVE MergedInOrder(_, _)
MergedInOrder(f, n) ==
    IF n = 0 THEN EmptyShare
    ELSE ShareMerge(MergedInOrder(f, n - 1), aggStore[f[n]].agg_share)

\* The XOR of the stored checksums of a set of buckets.
RECURSIVE ChecksumOver(_)
ChecksumOver(S) ==
    IF S = {} THEN 0
    ELSE LET w == CHOOSE x \in S : TRUE
         IN  Xor(aggStore[w].agg_share.checksum, ChecksumOver(S \ {w}))

\* C23: get_agg_share returns the merge of the stored shares of exactly the
\* buckets of the selector's span: its report_count is their sum, its checksum
\* their XOR, a bucket never merged into adds the empty share, and merging the
\* buckets' answers in any order gives the same share.
C23_AggShareIsMergeOverSpan ==
    RetIs("get_agg_share")
    => /\ RetVal.ok
       /\ RetVal.val.report_count = StoredCount(aggStore, SpanOf(RetArg))
       /\ RetVal.val.checksum = ChecksumOver(SpanOf(RetArg))
       /\ \A f \in ResponseOrders(SpanOf(RetArg)) :
              RetVal.val = MergedInOrder(f, Cardinality(SpanOf(RetArg)))

\* A share over three buckets: the first holds two reports, the middle one was
\* never merged into and the last holds one report.
C23_Witness ==
    /\ RetIs("get_agg_share")
    /\ Cardinality(SpanOf(RetArg)) = 3
    /\ aggStore[RetArg.start].agg_share.report_count = 2
    /\ aggStore[RetArg.start + time_precision].agg_share = EmptyShare
    /\ aggStore[RetArg.start + 2 * time_precision].agg_share.report_count = 1
    /\ RetVal.val.report_count = 3


\* C24: a second mark_collected over the same batch selector succeeds and leaves
\* every bucket's share and collected flag as the first call left them; and a
\* mark_collected over a span whose buckets are all collected changes no bucket.
C24_MarkCollectedIdempotent ==
    /\ []( RetIs("mark_collected_again")
            => /\ RetVal = Ok("unit")
               /\ aggStore = RetArg.once
               /\ \A w \in SpanOf(RetArg.batch_sel) : aggStore[w].collected )
    /\ [][ (ret = None /\ ret' # None /\ ret'.val.op = "mark_collected"
              /\ \A w \in SpanOf(ret'.val.arg) : aggStore[w].collected)
           => (ret'.val.val = Ok("unit") /\ aggStore' = aggStore) ]_vars

\* A second call over two buckets, one holding reports and one never merged
\* into, with a third bucket left uncollected.
C24_Witness ==
    /\ RetIs("mark_collected_again")
    /\ Cardinality(SpanOf(RetArg.batch_sel)) = 2
    /\ \E w \in SpanOf(RetArg.batch_sel) : aggStore[w].agg_share.report_count > 0
    /\ \E w \in SpanOf(RetArg.batch_sel) : aggStore[w].agg_share = EmptyShare
    /\ \E w \in Windows : ~aggStore[w].collected


(***************************************************************************)
(* Early-reject properties                                                 *)
(***************************************************************************)
\* A check_early_reject call is made in this step.
ChecksReports == ret = None /\ ret' # None /\ ret'.val.op = "check_early_reject"

\* No ReportsProcessed instance holds the report id.
NeverProcessed(id) == \A name \in DOMAIN reportsProcessed : id \notin reportsProcessed[name]

\* The report at position i is the only one of the call with its id.
OnlyOccurrence(report_meta, i) ==
    \A j \in 1..Len(report_meta) : report_meta[j].id = report_meta[i].id => j = i

\* The bucket covering a report.
BucketOf(metadata) == metadata.time - (metadata.time % time_precision)

\* C25: a never-processed report in an uncollected bucket gets no failure when
\* min_time <= time <= max_time (time = min_time included), ReportDropped when
\* time < min_time and ReportTooEarly when time > max_time.
C25_TimeWindow ==
    [][ ChecksReports
        => LET report_meta == ret'.val.arg
               fails == ret'.val.val.val
               min_time == least_valid_report_time(now)
               max_time == greatest_valid_report_time(now)
           IN  \A i \in 1..Len(report_meta) :
                  LET m == report_meta[i]
                  IN  (NeverProcessed(m.id) /\ OnlyOccurrence(report_meta, i)
                          /\ ~aggStore[BucketOf(m)].collected)
                      => /\ (min_time <= m.time /\ m.time <= max_time)
                                => m.id \notin DOMAIN fails
                         /\ m.time < min_time
                                => (m.id \in DOMAIN fails /\ fails[m.id] = "ReportDropped")
                         /\ m.time > max_time
                                => (m.id \in DOMAIN fails /\ fails[m.id] = "ReportTooEarly")
      ]_vars

\* With min_time = 1, one call in which the report of time 1 passes and the
\* report of time 0 is dropped.
C25_Witness ==
    /\ RetIs("check_early_reject")
    /\ least_valid_report_time(now) = 1
    /\ \E i, j \in 1..Len(RetArg) :
        /\ RetArg[i].time = 1 /\ RetArg[i].id \notin DOMAIN RetVal.val
        /\ RetArg[j].time = 0 /\ RetArg[j].id \in DOMAIN RetVal.val
        /\ RetVal.val[RetArg[j].id] = "ReportDropped"

\* C26: a never-processed report whose bucket is collected when the call runs is
\* failed with BatchCollected, and a report of the same call whose own bucket is
\* not collected is not: each report is judged with the flag of its own bucket.
C26_CollectedFlagOfOwnBucket ==
    [][ ChecksReports
        => LET report_meta == ret'.val.arg
               fails == ret'.val.val.val
           IN  \A i \in 1..Len(report_meta) :
                  LET m == report_meta[i]
                  IN  (NeverProcessed(m.id) /\ OnlyOccurrence(report_meta, i))
                      => ((m.id \in DOMAIN fails /\ fails[m.id] = "BatchCollected")
                            <=> aggStore[BucketOf(m)].collected)
      ]_vars

\* One call over two buckets, the first not collected and the second collected:
\* the report of the first passes, the report of the second is failed.
C26_Witness ==
    /\ RetIs("check_early_reject")
    /\ Len(RetArg) = 2
    /\ BucketOf(RetArg[1]) < BucketOf(RetArg[2])
    /\ ~aggStore[BucketOf(RetArg[1])].collected
    /\ aggStore[BucketOf(RetArg[2])].collected
    /\ RetArg[1].id \notin DOMAIN RetVal.val
    /\ RetArg[2].id \in DOMAIN RetVal.val
    /\ RetVal.val[RetArg[2].id] = "BatchCollected"

\* The outcome of the report at position i of a call: the entry of its id in the
\* failures returned, as the caller looks it up.
OutcomeAt(report_meta, fails, i) ==
    IF report_meta[i].id \in DOMAIN fails THEN Some(fails[report_meta[i].id]) ELSE None

\* C27: when one check_early_reject call holds the same report id more than
\* once, the first occurrence is not failed and every later occurrence is failed
\* with ReportReplayed.
C27_DuplicateInCallReplayed ==
    [][ ChecksReports
        => LET report_meta == ret'.val.arg
               fails == ret'.val.val.val
           IN  \A i, j \in 1..Len(report_meta) :
                  (/\ i < j
                   /\ report_meta[i].id = report_meta[j].id
                   /\ \A k \in 1..(i - 1) : report_meta[k].id # report_meta[i].id
                   /\ NeverProcessed(report_meta[i].id)
                   /\ early_metadata_check(report_meta[i], FALSE,
                                           aggStore[BucketOf(report_meta[i])].collected,
                                           least_valid_report_time(now),
                                           greatest_valid_report_time(now)) = None)
                  => /\ OutcomeAt(report_meta, fails, i) = None
                     /\ OutcomeAt(report_meta, fails, j) = Some("ReportReplayed")
      ]_vars

\* C28: processing an identical AggJobInitReq a second time yields the same
\* per-report early-reject outcomes as the first processing.
C28_ResentInitSameOutcomes ==
    RetIs("check_early_reject_again") => RetVal.first = RetVal.second

(***************************************************************************)
(* Helper state store properties                                           *)
(***************************************************************************)
\* A put_helper_state call that stores its state is made in this step.
PutsHelperState ==
    /\ ret = None /\ ret' # None
    /\ ret'.val.op = "put_helper_state"
    /\ ret'.val.val.ok

\* After a put, get_helper_state of the key put returns exactly the state put,
\* and the store holds for every other name what it held.
PutThenGet ==
    PutsHelperState =>
        /\ \A t \in TaskIds, j \in AggJobIds :
              (<<t, j>> = <<ret'.val.arg.task_id, ret'.val.arg.agg_job_id>>)
              => get_helper_state(t, j)' = Ok(Some(ret'.val.arg.helper_state))
        /\ \A name \in HelperStateNames :
              (name[2] # ret'.val.arg.task_id \/ name[3] # ret'.val.arg.agg_job_id)
              => HelperStateGet(helperState', name) = HelperStateGet(helperState, name)

\* Any other step leaves the store and the task configurations, hence what
\* get_helper_state returns for every key.
NoPutNoChange ==
    (~PutsHelperState) => (helperState' = helperState /\ taskConfigs' = taskConfigs)

\* A get returns what the store holds for its key and leaves the store.
GetReadsOnly ==
    (ret = None /\ ret' # None /\ ret'.val.op = "get_helper_state") =>
        /\ helperState' = helperState
        /\ ret'.val.val
              = get_helper_state(ret'.val.arg.task_id, ret'.val.arg.agg_job_id)

\* C29: for a configured task, get_helper_state of a key never put returns None;
\* after put_helper_state it returns exactly the state put; a put leaves the
\* state of every other (task, agg_job) as it was; and get_helper_state returns
\* what the store holds and leaves the store as it was, so that repeated calls
\* return the same value.
C29_HelperStatePutGet ==
    /\ \A t \in TaskIds, j \in AggJobIds :
          taskConfigs[t] # None => get_helper_state(t, j) = Ok(None)
    /\ [][PutThenGet /\ NoPutNoChange /\ GetReadsOnly]_vars

\* A get_helper_state that returns a state put earlier for its key, while the
\* task's other job holds a different state and another key was never put.
C29_Witness ==
    /\ RetIs("get_helper_state")
    /\ RetVal.ok /\ RetVal.val # None
    /\ \E j \in AggJobIds :
          /\ j # RetArg.agg_job_id
          /\ get_helper_state(RetArg.task_id, j).ok
          /\ get_helper_state(RetArg.task_id, j).val # None
          /\ get_helper_state(RetArg.task_id, j) # RetVal
    /\ \E t \in TaskIds, j \in AggJobIds : get_helper_state(t, j) = Ok(None)

(***************************************************************************)
(* Fixed-size batch assignment properties                                  *)
(***************************************************************************)
\* The reports a get_reports call took and did not assign to a batch.
Unassigned(num_unassigned, batch_assignments) ==
    drain_assignments(num_unassigned, batch_assignments, 1)

\* C30: for a fixed-size task get_reports does not fail, every batch holds at
\* most max_batch_size reports, and the reports that do not fill a batch stay
\* unassigned: with min_batch_size = max_batch_size = 5 and 12 reports, two
\* batches of 5 are formed and 2 reports remain unassigned.
C30_FixedSizeAssignment ==
    RetIs("get_reports")
    => /\ RetVal.ok
       /\ \A i \in 1..Len(batchQueue) : batchQueue[i] <= max_batch_size
       /\ RetArg.num_unassigned = 12
            => /\ Len(RetVal.val) = 2
               /\ \A i \in 1..2 : RetVal.val[i].report_count = 5
               /\ Unassigned(12, RetVal.val) = 2

\* A get_reports call is made in this step.
GetsReports == ret = None /\ ret' # None /\ ret'.val.op = "get_reports"

DoneFixedSize(c) ==
    /\ colQueue[c].state = "Done"
    /\ colQueue[c].collect_resp.part_batch_sel = "FixedSizeByBatchId"

\* A finish_collect_job for a time-interval collection returns in this step.
FinishesTimeInterval ==
    /\ ret = None /\ ret' # None
    /\ ret'.val.op = "finish_collect_job"
    /\ ret'.val.arg.collect_resp.part_batch_sel = "TimeInterval"

\* C32: the batch of a fixed-size collection is removed from the batch queue no
\* later than its job becomes Done, and current_batch never serves it again; a
\* finish_collect_job for a time-interval collection leaves the batch queue.
C32_BatchRemovedByDone ==
    /\ [](\A c \in CollectIds :
            DoneFixedSize(c) => colQueue[c].collect_resp.batch_id \in batchRemoved)
    /\ [](RetIs("current_batch") /\ RetVal.ok
            => \A c \in CollectIds :
                  DoneFixedSize(c) => colQueue[c].collect_resp.batch_id # RetVal.val)
    /\ [][FinishesTimeInterval
            => (batchQueue' = batchQueue /\ batchRemoved' = batchRemoved)]_vars

\* current_batch serves the second batch while the job over the first is Done.
C32_Witness ==
    /\ RetIs("current_batch")
    /\ RetVal.ok
    /\ RetVal.val = 2
    /\ \E c \in CollectIds :
          DoneFixedSize(c) /\ colQueue[c].collect_resp.batch_id = 1
    /\ \E c \in CollectIds :
          /\ colQueue[c].state = "Done"
          /\ colQueue[c].collect_resp.part_batch_sel = "TimeInterval"

\* What the collection job queue holds for a collection job id.
JobOf(c) == ColJobQueueGetResult(colQueue, c)

\* An init_collect_job that is assigned the id c returns in this step.
InitsJob(c) ==
    /\ ret = None /\ ret' # None
    /\ ret'.val.op = "init_collect_job"
    /\ ret'.val.val = Ok(c)

\* A finish_collect_job for the id c returns in this step.
FinishesJob(c) ==
    /\ ret = None /\ ret' # None
    /\ ret'.val.op = "finish_collect_job"
    /\ ret'.val.arg.collect_id = c

\* The life of one collection job: Unknown until an init_collect_job is assigned
\* its id, Pending from then until a finish_collect_job for it, Done with the
\* collection passed to that call from then on.
JobLifeCycle(c) ==
    /\ InitsJob(c) => JobOf(c)'.state # "Unknown"
    /\ (JobOf(c).state = "Unknown" /\ JobOf(c)' # JobOf(c))
         => (InitsJob(c) /\ JobOf(c)' = [state |-> "Pending"])
    /\ (JobOf(c).state = "Pending" /\ FinishesJob(c))
         => JobOf(c)' = [state |-> "Done", collect_resp |-> ret'.val.arg.collect_resp]
    /\ (JobOf(c).state = "Pending" /\ JobOf(c)' # JobOf(c)) => FinishesJob(c)
    /\ JobOf(c).state = "Done" => JobOf(c)' = JobOf(c)

\* C33: poll_collect_job returns Unknown for an id never put, Pending from
\* init_collect_job until finish_collect_job and Done with exactly the
\* collection passed to finish_collect_job from then on; a Done job never
\* returns to Pending and get_pending_collect_jobs lists the Pending jobs only.
C33_CollectJobLifeCycle ==
    /\ \A c \in CollectIds : JobOf(c) = [state |-> "Unknown"]
    /\ [][\A c \in CollectIds : JobLifeCycle(c)]_vars
    /\ [](RetIs("poll_collect_job") => RetVal = Ok(JobOf(RetArg)))
    /\ [](RetIs("get_pending_collect_jobs")
            => \A c \in CollectIds :
                  (\E job \in RetVal.val : job.collect_id = c)
                  <=> JobOf(c).state = "Pending")

\* A poll that returns Done with the collection of 2 reports for one job while
\* the other job is pending.
C33_Witness ==
    /\ RetIs("poll_collect_job")
    /\ RetVal.val.state = "Done"
    /\ RetVal.val.collect_resp.report_count = 2
    /\ \E c \in CollectIds : JobOf(c).state = "Pending"

\* C34: a collection job is reported Done by poll_collect_job only after every
\* bucket of its batch span has been marked collected.
C34_DoneOnlyAfterCollected ==
    (RetIs("poll_collect_job") /\ RetVal.val.state = "Done")
    => \A w \in batch_span_for_sel(colQueue[RetArg].collect_req) : aggStore[w].collected

(***************************************************************************)
(* Upload properties                                                       *)
(***************************************************************************)
\* A report with this id has been uploaded and is stored.
Uploaded(id) ==
    \E name \in DOMAIN pendingStore : \E r \in pendingStore[name] : r.id = id

\* C35: put_report of a report whose id was already uploaded for the task is
\* rejected with ReportReplayed, whatever the two reports' times, and leaves
\* the stored reports as they were.
C35_DuplicateUploadRejected ==
    [][ (ret = None /\ ret' # None /\ ret'.val.op = "put_report"
            /\ Uploaded(ret'.val.arg.id))
        => (ret'.val.val = Err("ReportReplayed") /\ pendingStore' = pendingStore)
      ]_vars

(***************************************************************************)
(* Taskprov write order                                                    *)
(***************************************************************************)
\* The task's stored configuration was materialized from taskprov.
Materialized(t) == taskConfigs[t] # None /\ taskConfigs[t].val.taskprov # None

\* Taskprov is configured with a bearer token for the Leader.
TaskprovBearer == taskprov # None /\ taskprov.val.leader_auth.type = "BearerToken"

\* C36: under bearer-token auth, whenever the configuration of a
\* taskprov-materialized task is stored, its leader bearer token is stored too,
\* also after a failure between the two writes and with resolutions of the same
\* task running at the same time.
C36_TokenStoredBeforeConfig ==
    \A t \in TaskIds :
        (TaskprovBearer /\ Materialized(t))
        => leaderTokens[t] = Some(taskprov.val.leader_auth.token)

\* One task is materialized with its token while a resolution of the other
\* task has failed after writing the token and before writing the configuration.
C36_Witness ==
    /\ TaskprovBearer
    /\ \E t, u \in TaskIds :
          /\ Materialized(t)
          /\ taskConfigs[u] = None
          /\ leaderTokens[u] # None
          /\ \E p \in Procs :
                /\ resolving[p].pc = "done"
                /\ resolving[p].task_id = u
                /\ resolving[p].result = Err(Fatal("kv"))

(***************************************************************************)
(* Frame of a failed put_out_shares                                        *)
(***************************************************************************)
\* C37: a put_out_shares that returns an error has changed the stored share of
\* none of the buckets of its span.
C37_FailedPutOutSharesChangesNothing ==
    [][ (ret = None /\ ret' # None /\ ret'.val.op = "put_out_shares" /\ ~ret'.val.val.ok)
        => aggStore' = aggStore ]_vars

(***************************************************************************)
(* What check_early_reject records                                         *)
(***************************************************************************)
\* C38: check_early_reject records every report id it is given in
\* ReportsProcessed, the ids of the reports it rejects included, and a second
\* check_early_reject over the same reports returns ReportReplayed for each.
C38_RejectedReportsRecorded ==
    /\ [][ ChecksReports
            => \A i \in 1..Len(ret'.val.arg) :
                  ret'.val.arg[i].id
                     \in reportsProcessed'[durable_name_report_store(ret'.val.arg[i])]
       ]_vars
    /\ [](RetIs("check_early_reject_again")
            => \A i \in 1..Len(RetArg) :
                  OutcomeAt(RetArg, RetVal.second.val, i) = Some("ReportReplayed"))

\* A second check that returns ReportReplayed for a report the first check
\* rejected as too early and for one it rejected for its collected batch.
C38_Witness ==
    /\ RetIs("check_early_reject_again")
    /\ \E i, j \in 1..Len(RetArg) :
          /\ OutcomeAt(RetArg, RetVal.first.val, i) = Some("ReportTooEarly")
          /\ OutcomeAt(RetArg, RetVal.first.val, j) = Some("BatchCollected")
          /\ OutcomeAt(RetArg, RetVal.second.val, i) = Some("ReportReplayed")
          /\ OutcomeAt(RetArg, RetVal.second.val, j) = Some("ReportReplayed")

=============================================================================
